---- MODULE Spec2Model ----
(***************************************************************************)
(* A model of raveler-exporter (src/raveler.go, src/main.go): the loading  *)
(* of the segment->body and superpixel->segment maps, the walk over the    *)
(* superpixel images, the accumulation of body ids into the layer buffer   *)
(* and the flushes of the layer.                                           *)
(*                                                                         *)
(* Conventions.  Go slices are sequences; a Go index i is the sequence     *)
(* index i + 1.  A nil slice is the empty sequence: the layer buffer is    *)
(* never empty once allocated, because an image has at least one pixel     *)
(* and main refuses slabZ < 1.  File names are sequences of byte values.   *)
(* Integers of the model are below 2^31 in size: a uint64 of 2^63 or more  *)
(* is written as the integer of the same 64 bits (see BodyOf), and the     *)
(* numbers of file names are either below 2^31 or above the largest int.   *)
(***************************************************************************)
EXTENDS Integers, Sequences, FiniteSets, TLC

VARIABLES
    \* configuration: the flags of main.go and the three inputs
    slabZ,          \* *slabZ
    minz,           \* *minz
    maxz,           \* *maxz
    bodyoffset,     \* *bodyoffset
    roiBlocksize,   \* *roiBlocksize
    roiSrc,         \* what json.Unmarshal reads from the file *roiFile:
                    \* [isNil, spans]
    roiIs,          \* what the run finds at *roiFile: "no flag" (the flag is
                    \* empty), "ok", "no open" (os.Open fails), "no read"
                    \* (ioutil.ReadAll fails), "bad json" (json.Unmarshal fails)
    segSrc,         \* the lines of the segment->body file
    segIs,          \* what os.Open finds at seg_to_body: "ok", "no open"
    spSrc,          \* the lines of the superpixel->segment file
    spIs,           \* what os.Open finds at sp_to_seg: "ok", "no open"
    dir,            \* the files of sp_dir in the order filepath.Walk visits them
    slabX,          \* *slabX
    slabY,          \* *slabY
    url,            \* *url, "" when the slabs are not sent to DVID
    outdir,         \* *outdir, "" when the slabs are not written to files
    compression,    \* *compression
    dryrun,         \* *dryrun
    outdirIs,       \* what os.Stat and os.MkdirAll find at *outdir: "dir",
                    \* "absent" (MkdirAll makes it), "blocked" (absent, and
                    \* MkdirAll fails), "file", "no stat" (Stat fails otherwise)
    \* program state
    roi,            \* the ROI of processRavelerExport: [isNil, spans]
    pc,             \* "loadRoi", "openSeg", "loadSeg", "openSp", "loadSp",
                    \* "transform", "walk", "done", "error"; "call" when a
                    \* single function is run
    err,            \* the error returned, "" when none
    errArgs,        \* what the message of the error names: <<what, value>> pairs
    lineI,          \* number of lines consumed from the file being read
    seg2body,       \* map[uint64]uint64
    sp2body,        \* map[Superpixel]uint64, keys <<slice, label>>
    walkI,          \* number of files the walk has visited
    layer,          \* layerT
    zoffset,        \* the starting z of current output buffer
    zInBuf,         \* # of Z slices stored in output buffer
    first,
    \* what the run did to the outside, in order
    opened,         \* indices into dir of the image files opened (os.Open)
    inBuf,          \* indices into dir of the images written since the last flush
    flushes,        \* the calls of writeLayer: [oz, buf, imgs, ok]
    slabs,          \* the calls of writeDVID and writeFile:
                    \* [sink, ox, oy, oz, io, flush]
    \* the arguments and the result of a single function under test
    call

vars == <<slabZ, minz, maxz, bodyoffset, roiBlocksize, roiSrc, roiIs, segSrc, segIs,
          spSrc, spIs, dir, slabX, slabY, url, outdir, compression, dryrun, outdirIs,
          roi, pc, err, errArgs, lineI, seg2body, sp2body, walkI, layer, zoffset, zInBuf,
          first, opened, inBuf, flushes, slabs, call>>

\* the flags and what the run finds outside
inputVars == <<slabZ, minz, maxz, bodyoffset, roiBlocksize, roiSrc, roiIs, segSrc,
               segIs, spSrc, spIs, dir, slabX, slabY, url, outdir, compression,
               dryrun, outdirIs>>

\* what the loops leave alone: the inputs, and the ROI once it is loaded
cfgVars == <<inputVars, roi>>

runVars == <<pc, err, errArgs, lineI, seg2body, sp2body, walkI, layer, zoffset, zInBuf,
             first, opened, inBuf, flushes, slabs>>

----------------------------------------------------------------------------
(* Bounds of the model. *)

\* the largest number of files in the image directory
MaxFiles == 3
\* the largest slab thickness
MaxSlabZ == 2
\* the largest ROI block size
MaxBlocksize == 2
\* the longest span list given to seekSpan on its own
MaxSpans == 2
\* the most digits of a file name given to zhead on its own
MaxDigits == 2
\* the largest slab thickness given to zhead on its own
MaxDepth == 6
\* the largest slab width and height
MaxSlab == 2
\* the largest width and height of a layer given to writeLayer on its own
MaxSide == 3
\* the number of POSTs of one writeDVID that are counted; the POSTs go on
MaxPosts == 3

----------------------------------------------------------------------------
(* Go's integer arithmetic. *)

Abs(a) == IF a < 0 THEN -a ELSE a

\* a / b of Go: the quotient truncated toward zero
GoDiv(a, b) ==
    IF (a < 0) = (b < 0) THEN Abs(a) \div Abs(b) ELSE -(Abs(a) \div Abs(b))

\* a % b of Go: the remainder has the sign of a
GoMod(a, b) == a - b * GoDiv(a, b)

----------------------------------------------------------------------------
(* Spans and the forward cursor.  A span is <<z, y, x0, x1>>, a block is   *)
(* <<x, y, z>>.                                                            *)

\* Less with the comparison made on x0 instead of x1
LessByX0(s, block) ==
    IF s[1] < block[3] THEN TRUE
    ELSE IF s[1] > block[3] THEN FALSE
    ELSE IF s[2] < block[2] THEN TRUE
    ELSE IF s[2] > block[2] THEN FALSE
    ELSE IF s[3] < block[1] THEN TRUE
    ELSE FALSE

Less(s, block) ==
    IF s[1] < block[3] THEN TRUE
    ELSE IF s[1] > block[3] THEN FALSE
    ELSE IF s[2] < block[2] THEN TRUE
    ELSE IF s[2] > block[2] THEN FALSE
    ELSE IF s[4] < block[1] THEN TRUE
    ELSE FALSE

\* Includes without the test of the row
IncludesAnyRow(s, block) ==
    IF s[1] # block[3] THEN FALSE
    ELSE IF s[3] > block[1] \/ s[4] < block[1] THEN FALSE
    ELSE TRUE

Includes(s, block) ==
    IF s[1] # block[3] THEN FALSE
    ELSE IF s[2] # block[2] THEN FALSE
    ELSE IF s[3] > block[1] \/ s[4] < block[1] THEN FALSE
    ELSE TRUE

RECURSIVE seekLoop(_, _, _)
\* the for loop of seekSpan, entered with curSpanI < len(roi)
seekLoop(block, spans, curSpanI) ==
    LET curSpan == spans[curSpanI + 1]
    IN  IF Less(curSpan, block)
        THEN IF curSpanI + 1 >= Len(spans)
             THEN <<curSpanI + 1, FALSE>>
             ELSE seekLoop(block, spans, curSpanI + 1)
        ELSE IF Includes(curSpan, block)
             THEN <<curSpanI, TRUE>>
             ELSE <<curSpanI, FALSE>>

\* seekSpan returns <<the span index, whether the block is in that span>>
seekSpan(block, spans, curSpanI) ==
    IF curSpanI >= Len(spans)
    THEN <<curSpanI, FALSE>>
    ELSE seekLoop(block, spans, curSpanI)

\* zhead rounding up instead of down
zheadUp(z) ==
    LET nz == GoDiv(z + slabZ - 1, slabZ)
    IN  slabZ * nz

\* the window start that is the origin of the volume for every slice
zheadOrigin(z) == 0

\* the first Z of the block in which z is located
zhead(z) ==
    LET nz == GoDiv(z, slabZ)
    IN  slabZ * nz

----------------------------------------------------------------------------
(* File names.  A name is a sequence of bytes; the walk visits the names   *)
(* of a directory in lexical (byte-wise) order.                            *)

IsDigit(c) == c \in 48..57

\* ".png"
PngExt == <<46, 112, 110, 103>>

\* filepath.Ext: the suffix beginning at the final dot, empty if there is none
Ext(name) ==
    LET dots == {i \in 1..Len(name) : name[i] = 46}
    IN  IF dots = {} THEN <<>>
        ELSE SubSeq(name, CHOOSE i \in dots : \A j \in dots : j <= i, Len(name))

\* fileregex.FindString for [[:digit:]]+\.png$ : the leftmost match, which is
\* the whole run of digits that ends at the final ".png"; empty without a match
FindString(name) ==
    LET n == Len(name)
        starts == {i \in 1..(n - 4) : \A j \in i..(n - 4) : IsDigit(name[j])}
    IN  IF n >= 5 /\ SubSeq(name, n - 3, n) = PngExt /\ starts # {}
        THEN SubSeq(name, CHOOSE i \in starts : \A j \in starts : i <= j, n)
        ELSE <<>>

\* "9223372036854775807", the largest int
MaxInt64 == <<57, 50, 50, 51, 51, 55, 50, 48, 51, 54, 56, 53, 52, 55, 55, 53, 56, 48, 55>>

RECURSIVE Significant(_)
\* a string of digits without its leading zeros
Significant(digits) ==
    IF digits # <<>> /\ digits[1] = 48 THEN Significant(Tail(digits)) ELSE digits

RECURSIVE DigitsLess(_, _)
\* a < b for two strings of digits of the same length
DigitsLess(a, b) ==
    IF a = <<>> THEN FALSE
    ELSE IF a[1] # b[1] THEN a[1] < b[1]
    ELSE DigitsLess(Tail(a), Tail(b))

\* whether the number a string of digits writes is above the largest int
AboveMaxInt64(digits) ==
    LET d == Significant(digits)
    IN  Len(d) > Len(MaxInt64) \/ (Len(d) = Len(MaxInt64) /\ DigitsLess(MaxInt64, d))

RECURSIVE DecimalValue(_)
\* the number a string of decimal digits writes
DecimalValue(digits) ==
    IF digits = <<>> THEN 0
    ELSE 10 * DecimalValue(SubSeq(digits, 1, Len(digits) - 1)) + (digits[Len(digits)] - 48)

\* strconv.Atoi of a string of decimal digits: [n, err].  On a range error n
\* is the largest int, kept as its digits.
Atoi(digits) ==
    IF digits = <<>> THEN [n |-> 0, err |-> "invalid syntax"]
    ELSE IF AboveMaxInt64(digits) THEN [n |-> MaxInt64, err |-> "value out of range"]
    ELSE [n |-> DecimalValue(digits), err |-> ""]

\* the Z slice parsed from a file name: [z, err], without z when the regular
\* expression does not match or strconv.Atoi fails
ParseZ(name) ==
    LET rfrag == FindString(name)
        a == Atoi(SubSeq(rfrag, 1, Len(rfrag) - 4))
    IN  IF Len(rfrag) < 5 THEN [err |-> "error parsing Z slice in filename"]
        ELSE IF a.err # "" THEN [err |-> "error parsing Z in filename"]
        ELSE [z |-> a.n, err |-> ""]

RECURSIVE LexLess(_, _)
\* a < b for Go strings: byte-wise, a proper prefix first
LexLess(a, b) ==
    IF b = <<>> THEN FALSE
    ELSE IF a = <<>> THEN TRUE
    ELSE IF a[1] # b[1] THEN a[1] < b[1]
    ELSE LexLess(Tail(a), Tail(b))

RECURSIVE WalkOrder(_)
\* filepath.Walk: the files of a directory in lexical order of their names
WalkOrder(files) ==
    IF files = {} THEN <<>>
    ELSE LET f == CHOOSE g \in files :
                      \A h \in files : h.name = g.name \/ LexLess(g.name, h.name)
         IN  <<f>> \o WalkOrder(files \ {f})

----------------------------------------------------------------------------
(* Decoding a pixel.  A colour is [kind, R, G, B, Y]; what image.Decode     *)
(* gives for a file is [format, type, w, h, pix] with pix in raster order: *)
(* format is "png" when the bytes start as a PNG and "" otherwise, type is  *)
(* the type of the image and "nil" when the decoding failed.               *)

\* 16-bit: pixel intensity is superpixel id
\* 32-bit: superpixel id = R + (256 * G) + (65536 * B)
\* The result is [id, err]; the type assertion c.(color.Gray16) of the 16-bit
\* case panics on any other colour.
getSuperpixelId(c, format) ==
    IF format = "Superpixel24Bits"
    THEN IF c.kind \in {"NRGBA", "RGBA"}
         THEN [id |-> ((c.B * 256) + c.G) * 256 + c.R, err |-> ""]
         ELSE [id |-> 0, err |-> "expected 32-bit RGBA superpixels, got"]
    ELSE IF format = "Superpixel16Bits"
    THEN IF c.kind = "Gray16"
         THEN [id |-> c.Y, err |-> ""]
         ELSE [id |-> 0, err |-> "panic: interface conversion"]
    ELSE [id |-> 0, err |-> "unknown superpixel format"]

\* the type switch on the decoded image
FormatOf(img) ==
    IF img.type = "Gray16" THEN "Superpixel16Bits"
    ELSE IF img.type \in {"RGBA", "NRGBA"} THEN "Superpixel24Bits"
    ELSE "SuperpixelNone"

\* the z range test with minz itself left out
OutOfRangeAtMin(z) == z <= minz \/ z > maxz

\* the z range test of the walk
OutOfRange(z) == z < minz \/ z > maxz

\* the ROI block of pixel (x, y) of slice z
Block(x, y, z) ==
    <<GoDiv(x, roiBlocksize), GoDiv(y, roiBlocksize), GoDiv(z, roiBlocksize)>>

\* initSpan: the cursor every pixel row of slice z starts from
InitSpan(z) == seekSpan(Block(0, 0, z), roi.spans, 0)[1]

RECURSIVE RowScan(_, _, _, _, _)
\* inROI for the pixels x, x+1, .., w-1 of row y, the cursor threaded through
RowScan(w, z, y, x, curSpan) ==
    IF x >= w THEN <<>>
    ELSE LET r == seekSpan(Block(x, y, z), roi.spans, curSpan)
         IN  <<r[2]>> \o RowScan(w, z, y, x + 1, r[1])

\* whether the pixel loop decodes pixel (x, y) of an image of width w at slice z
InROI(w, z, x, y) ==
    IF roi.isNil THEN TRUE
    ELSE RowScan(w, z, y, 0, InitSpan(z))[x + 1]

\* the body stored when a label that is not in the table stands for itself
BodyOfOwnLabel(label, z) ==
    LET sp == <<z, label>>
        body == IF label = 0 THEN 0
                ELSE IF sp \in DOMAIN sp2body THEN sp2body[sp]
                ELSE label
    IN  IF bodyoffset # 0 THEN body + bodyoffset ELSE body

\* the body stored for a label of slice z.  body is a uint64 and the offset is
\* added to it as uint64(*bodyoffset), a sum modulo 2^64: a uint64 of 2^63 or
\* more is written here as the integer of the same 64 bits, v - 2^64, so that
\* + is that sum and LEByte gives its bytes (0 - 1 is 2^64 - 1, eight bytes
\* 255).  Slice is uint32(z), z itself for the slices below 2^32.
BodyOf(label, z) ==
    LET sp == <<z, label>>
        body == IF label = 0 THEN 0
                ELSE IF sp \in DOMAIN sp2body THEN sp2body[sp]
                ELSE 0
    IN  IF bodyoffset # 0 THEN body + bodyoffset ELSE body

\* zbuf: the z offset of slice z into a buffer of nz slices
ZSlot(z, nz) == GoMod(z, nz)

\* the pixel loop on the image of slice z: [buf, err].  The loop returns at
\* the first pixel inside the ROI that getSuperpixelId refuses, the pixels
\* before it stored; got[i] is what getSuperpixelId gives for pixel i, and
\* "outside" for a pixel the ROI skips before the call.
StoreImage(buf, lay, img, z) ==
    LET zbuf == ZSlot(z, lay.nz)
        format == FormatOf(img)
        rows == [y \in 0..(img.h - 1) |->
                    IF roi.isNil THEN [x \in 1..img.w |-> TRUE]
                    ELSE RowScan(img.w, z, y, 0, InitSpan(z))]
        got == [i \in 0..(img.w * img.h - 1) |->
                   IF rows[i \div img.w][(i % img.w) + 1]
                   THEN getSuperpixelId(img.pix[i + 1], format)
                   ELSE [id |-> 0, err |-> "outside"]]
        bad == {i \in DOMAIN got : got[i].err \notin {"", "outside"}}
        stop == IF bad = {} THEN img.w * img.h
                ELSE CHOOSE i \in bad : \A b \in bad : i <= b
    IN  [buf |-> [k \in 1..Len(buf) |->
                    LET i == k - 1 - zbuf * lay.nxy
                    IN  IF i < 0 \/ i >= stop THEN buf[k]
                        ELSE IF got[i].err = "" THEN BodyOf(got[i].id, z)
                        ELSE buf[k]],
         err |-> IF bad = {} THEN "" ELSE got[stop].err]

\* the layer allocated for the first image
NewLayer(img) ==
    [buf |-> [k \in 1..(img.w * img.h * slabZ) |-> 0],
     nx |-> img.w, ny |-> img.h, nz |-> slabZ,
     nxy |-> img.w * img.h, nxyz |-> img.w * img.h * slabZ]

NilLayer == [buf |-> <<>>, nx |-> 0, ny |-> 0, nz |-> 0, nxy |-> 0, nxyz |-> 0]

\* the reset of the layer that leaves the values of the flushed window in it
ZeroedKeeps(buf) == buf

\* for i := range layer.buf { layer.buf[i] = 0 }
Zeroed(buf) == [k \in 1..Len(buf) |-> 0]

----------------------------------------------------------------------------
(* The two lookup tables.  A line of a source is [kind, f, nl]: kind is    *)
(* "comment" when its first byte is a space or '#', "rec" when Sscanf      *)
(* reads the numbers f from it, "blank" for a line holding only the        *)
(* newline and "bad" for any other line, on both of which Sscanf fails;    *)
(* nl tells whether the line ends with a newline.  Only the last line of   *)
(* a source can lack it.                                                   *)

\* m[k] = v of a Go map
Put(m, k, v) == [x \in (DOMAIN m) \cup {k} |-> IF x = k THEN v ELSE m[x]]

EmptyMap == [x \in {} |-> 0]

\* a nil map, which reads as a map without keys
NilMap == EmptyMap

\* ReadString('\n') returns an error at the end of the file, also when it
\* returns the bytes of a last line that has no newline
ReadFails(src, n) == n >= Len(src) \/ ~src[n + 1].nl

\* linenum after n lines of a source have been read without an error: the
\* number of lines that reached the linenum++ at the end of the loop body
Linenum(src, n) ==
    Cardinality({k \in 1..n : src[k].kind = "rec"
                              /\ (Len(src[k].f) = 3 => src[k].f[2] # 0)})

\* the head of processRavelerExport: the ROI is loaded when -roi names a
\* file.  The errors of os.Open and ioutil.ReadAll are returned as they are,
\* written here "open *roiFile" and "read *roiFile".
LoadRoi ==
    /\ pc = "loadRoi"
    /\ IF roiIs = "no flag"
       THEN /\ pc' = "openSeg"
            /\ UNCHANGED <<err, roi>>
       ELSE IF roiIs = "ok"
       THEN /\ pc' = "openSeg"
            /\ roi' = roiSrc
            /\ UNCHANGED err
       ELSE /\ pc' = "error"
            /\ err' = IF roiIs = "no open" THEN "open *roiFile"
                      ELSE IF roiIs = "no read" THEN "read *roiFile"
                      ELSE "Error trying to parse JSON ROI"
            /\ UNCHANGED roi
    /\ UNCHANGED <<errArgs, seg2body>>
    /\ UNCHANGED <<lineI, sp2body, walkI, layer, zoffset, zInBuf, first, opened,
                   inBuf, flushes, slabs, call>>
    /\ UNCHANGED inputVars

\* the head of loadSegBodyMap: the map is made and the file opened
OpenSeg ==
    /\ pc = "openSeg"
    /\ IF segIs = "ok"
       THEN /\ pc' = "loadSeg"
            /\ UNCHANGED <<err, errArgs, seg2body>>
       ELSE /\ pc' = "error"
            /\ err' = "Could not open segment->body map"
            /\ errArgs' = { <<"file", "seg_to_body">> }
            /\ seg2body' = NilMap
    /\ UNCHANGED <<lineI, sp2body, walkI, layer, zoffset, zInBuf, first, opened,
                   inBuf, flushes, slabs, call>>
    /\ UNCHANGED cfgVars

\* one iteration of the loop of loadSegBodyMap
LoadSegLine ==
    /\ pc = "loadSeg"
    /\ IF ReadFails(segSrc, lineI)
       THEN /\ pc' = "openSp"
            /\ lineI' = 0
            /\ UNCHANGED <<err, errArgs, seg2body>>
       ELSE LET line == segSrc[lineI + 1]
            IN  /\ lineI' = lineI + 1
                /\ IF line.kind = "comment"
                   THEN UNCHANGED <<pc, err, errArgs, seg2body>>
                   ELSE IF line.kind # "rec"
                   THEN /\ pc' = "error"
                        /\ err' = "Error loading segment->body map"
                        /\ errArgs' = { <<"line", Linenum(segSrc, lineI)>>,
                                        <<"file", "seg_to_body">> }
                        /\ seg2body' = NilMap
                   ELSE /\ seg2body' = Put(seg2body, line.f[1], line.f[2])
                        /\ UNCHANGED <<pc, err, errArgs>>
    /\ UNCHANGED <<sp2body, walkI, layer, zoffset, zInBuf, first, opened, inBuf,
                   flushes, slabs, call>>
    /\ UNCHANGED cfgVars

\* the record handling that looks the segment up before it tests the
\* superpixel, and lets 2^24 pass
SpRecordLookupFirst(f) ==
    IF f[3] \notin DOMAIN seg2body
    THEN [act |-> "Segment not found", map |-> sp2body,
          args |-> { <<"segment", f[3]>>, <<"file", "sp_to_seg">>,
                     <<"file", "seg_to_body">> }]
    ELSE IF f[2] = 0 THEN [act |-> "skip", map |-> sp2body, args |-> {}]
    ELSE IF f[2] > 16777216
    THEN [act |-> "superpixel id exceeds 24-bit value!", map |-> sp2body,
          args |-> { <<"line", Linenum(spSrc, lineI)>> }]
    ELSE [act |-> "store", map |-> Put(sp2body, <<f[1], f[2]>>, seg2body[f[3]]),
          args |-> {}]

\* what one record <<slice, superpixel, segment>> does to the sp->body map:
\* "skip", an error with what its message names, or "store" with the new map
SpRecord(f) ==
    IF f[2] = 0 THEN [act |-> "skip", map |-> sp2body, args |-> {}]
    ELSE IF f[2] > 16777215
    THEN [act |-> "superpixel id exceeds 24-bit value!", map |-> sp2body,
          args |-> { <<"line", Linenum(spSrc, lineI)>> }]
    ELSE IF f[3] \notin DOMAIN seg2body
    THEN [act |-> "Segment not found", map |-> sp2body,
          args |-> { <<"segment", f[3]>>, <<"file", "sp_to_seg">>,
                     <<"file", "seg_to_body">> }]
    ELSE [act |-> "store", map |-> Put(sp2body, <<f[1], f[2]>>, seg2body[f[3]]),
          args |-> {}]

\* processRavelerExport between the two loops: the sp->body map is made and
\* the superpixel->segment file opened
OpenSp ==
    /\ pc = "openSp"
    /\ IF spIs = "ok"
       THEN /\ pc' = "loadSp"
            /\ UNCHANGED <<err, errArgs>>
       ELSE /\ pc' = "error"
            /\ err' = "Could not open superpixel->segment map"
            /\ errArgs' = { <<"file", "sp_to_seg">> }
    /\ UNCHANGED seg2body
    /\ UNCHANGED <<lineI, sp2body, walkI, layer, zoffset, zInBuf, first, opened,
                   inBuf, flushes, slabs, call>>
    /\ UNCHANGED cfgVars

\* one iteration of the loop of processRavelerExport
LoadSpLine ==
    /\ pc = "loadSp"
    /\ IF ReadFails(spSrc, lineI)
       THEN /\ pc' = "transform"
            /\ seg2body' = NilMap
            /\ UNCHANGED <<err, errArgs, lineI, sp2body>>
       ELSE LET line == spSrc[lineI + 1]
                r == SpRecord(line.f)
            IN  /\ lineI' = lineI + 1
                /\ UNCHANGED seg2body
                /\ IF line.kind = "comment"
                   THEN UNCHANGED <<pc, err, errArgs, sp2body>>
                   ELSE IF line.kind # "rec"
                   THEN /\ pc' = "error"
                        /\ err' = "Error loading superpixel->segment map"
                        /\ errArgs' = { <<"line", Linenum(spSrc, lineI)>>,
                                        <<"file", "sp_to_seg">> }
                        /\ UNCHANGED sp2body
                   ELSE IF r.act \in {"skip", "store"}
                   THEN /\ sp2body' = r.map
                        /\ UNCHANGED <<pc, err, errArgs>>
                   ELSE /\ pc' = "error"
                        /\ err' = r.act
                        /\ errArgs' = r.args
                        /\ UNCHANGED sp2body
    /\ UNCHANGED <<walkI, layer, zoffset, zInBuf, first, opened, inBuf,
                   flushes, slabs, call>>
    /\ UNCHANGED cfgVars

\* the head of transformImages: the output directory is looked at, and made
\* when it is absent, also in a dry run.  When os.Stat fails for another
\* reason than absence, fileinfo is nil and fileinfo.IsDir() panics.
EnterTransform ==
    /\ pc = "transform"
    /\ IF outdir = "" \/ outdirIs \in {"dir", "absent"}
       THEN /\ pc' = "walk"
            /\ UNCHANGED err
       ELSE /\ pc' = "error"
            /\ err' = IF outdirIs = "blocked" THEN "Can't make output directory"
                      ELSE IF outdirIs = "file"
                      THEN "Supplied output path is not a directory"
                      ELSE "panic: nil pointer dereference"
    /\ UNCHANGED <<errArgs, lineI, seg2body, sp2body, walkI, layer, zoffset, zInBuf,
                   first, opened, inBuf, flushes, slabs, call>>
    /\ UNCHANGED cfgVars

----------------------------------------------------------------------------
(* The delivery of a layer: writeLayer, writeDVID, writeFile, compress.    *)
(* A slab is a sequence of bytes.  What lz4 and gzip make of a slab is     *)
(* kept opaque: the output of compress is [codec, data], the encoding by   *)
(* codec of the bytes data; codec "none" is the bytes themselves.          *)

\* the values o takes in  for o := from; o < n; o += step
RECURSIVE Steps(_, _, _)

Steps(from, n, step) ==
    IF from >= n THEN <<>> ELSE <<from>> \o Steps(from + step, n, step)

\* the origins when the loop over x advances by the slab height
TileOriginsByHeight(lay) ==
    LET xs == Steps(0, lay.nx, slabY)
        ys == Steps(0, lay.ny, slabY)
    IN  [k \in 1..(Len(xs) * Len(ys)) |->
            <<xs[((k - 1) % Len(xs)) + 1], ys[((k - 1) \div Len(xs)) + 1]>>]

\* the origins <<ox, oy>> of the slabs of a layer, in the order of the two
\* outer loops of writeLayer
TileOrigins(lay) ==
    LET xs == Steps(0, lay.nx, slabX)
        ys == Steps(0, lay.ny, slabY)
    IN  [k \in 1..(Len(xs) * Len(ys)) |->
            <<xs[((k - 1) % Len(xs)) + 1], ys[((k - 1) \div Len(xs)) + 1]>>]

\* endX and endY of writeLayer: the end of a tile, clipped to the layer
ClipEnd(o, slab, n) == IF o + slab > n THEN n ELSE o + slab

\* the indices layerI the three inner loops of writeLayer read for a tile
TileCells(lay, ox, oy) ==
    { z * lay.nxy + y * lay.nx + x :
        z \in 0..(slabZ - 1),
        y \in oy..(ClipEnd(oy, slabY, lay.ny) - 1),
        x \in ox..(ClipEnd(ox, slabX, lay.nx) - 1) }

\* byte k of the 8 bytes when only the low 16 bits of v are written
LEByte16(v, k) ==
    IF k = 0 THEN v % 256 ELSE IF k = 1 THEN (v \div 256) % 256 ELSE 0

\* byte k of the 8 bytes binary.LittleEndian.PutUint64 writes for v
RECURSIVE LEByte(_, _)

LEByte(v, k) == IF k = 0 THEN v % 256 ELSE LEByte(v \div 256, k - 1)

\* a buffer of the size of the clipped tile, its voxels one after the other
slabBufPacked(lay, ox, oy) ==
    LET w == ClipEnd(ox, slabX, lay.nx) - ox
        h == ClipEnd(oy, slabY, lay.ny) - oy
    IN  [j \in 1..(8 * w * h * slabZ) |->
            LET u == (j - 1) \div 8
                z == u \div (w * h)
                sy == (u % (w * h)) \div w
                sx == u % w
            IN  LEByte(lay.buf[z * lay.nxy + (oy + sy) * lay.nx + (ox + sx) + 1],
                       (j - 1) % 8)]

\* slabBuf as writeLayer fills it for the tile at <<ox, oy>>
slabBuf(lay, ox, oy) ==
    LET sxBytes == slabX * 8
        sxyBytes == slabY * sxBytes
        sxyzBytes == slabZ * sxyBytes
        endY == ClipEnd(oy, slabY, lay.ny)
        endX == ClipEnd(ox, slabX, lay.nx)
    IN  [j \in 1..sxyzBytes |->
            LET si == j - 1
                z == si \div sxyBytes
                sy == (si % sxyBytes) \div sxBytes
                sx == (si % sxBytes) \div 8
            IN  IF oy + sy < endY /\ ox + sx < endX
                THEN LEByte(lay.buf[z * lay.nxy + (oy + sy) * lay.nx + (ox + sx) + 1],
                            si % 8)
                ELSE 0]

\* compress(slabBuf): [err, out]
compress(buf) ==
    IF compression = "none"
    THEN [err |-> "", out |-> [codec |-> "none", data |-> buf]]
    ELSE IF compression \in {"lz4", "gzip"}
    THEN [err |-> "", out |-> [codec |-> compression, data |-> buf]]
    ELSE [err |-> "unknown compression type", out |-> [codec |-> "", data |-> <<>>]]

\* the address writeDVID posts a slab to
PostURL(ox, oy, oz) ==
    [base |-> url, path |-> "raw/0_1_2", size |-> <<slabX, slabY, slabZ>>,
     offset |-> <<ox, oy, oz>>, throttle |-> "on",
     compression |-> IF compression \in {"gzip", "lz4"} THEN compression ELSE ""]

\* the switch on the status when 503 is a bad status like any other
OnStatusNoRetry(code) == IF code = 200 THEN "nil" ELSE "error"

\* the switch on r.StatusCode in writeDVID: return nil, sleep and post
\* again, or return an error
OnStatus(code) ==
    IF code = 200 THEN "nil"
    ELSE IF code = 503 THEN "retry"
    ELSE "error"

\* the seconds writeDVID sleeps when rand.Intn(30) returns r
Timeout(r) == 30 + r

\* the sinks writeLayer gives each slab to, in its order
Sinks ==
    (IF url # "" THEN <<"dvid">> ELSE <<>>) \o (IF outdir # "" THEN <<"file">> ELSE <<>>)

\* the calls of writeDVID and writeFile a writeLayer makes when none of them
\* returns an error
SlabCalls(lay, oz) ==
    LET t == TileOrigins(lay)
        n == Len(Sinks)
    IN  [k \in 1..(Len(t) * n) |->
            [sink |-> Sinks[((k - 1) % n) + 1],
             ox |-> t[((k - 1) \div n) + 1][1],
             oy |-> t[((k - 1) \div n) + 1][2],
             oz |-> oz]]

\* what the outside does to a writeLayer: the call at which it makes the
\* delivery fail (0 for none), and how it makes a POST fail
Fates(lay, oz) ==
    { [at |-> k, how |-> h] :
        k \in 0..Len(SlabCalls(lay, oz)), h \in {"bad status", "transport error"} }

\* the call of a sink that does not look at the dry run
SinkCallForReal(sink, fails, how) ==
    IF compression \notin {"none", "lz4", "gzip"}
    THEN [err |-> "unknown compression type", io |-> "none"]
    ELSE IF ~fails THEN [err |-> "", io |-> "ok"]
    ELSE IF sink = "dvid"
    THEN [err |-> IF how = "bad status" THEN "Received bad status from POST"
                  ELSE "http.Post",
          io |-> how]
    ELSE [err |-> "os", io |-> "file error"]

\* the error the call of a sink returns, "" for nil, and what it did to the
\* outside: "none" when it returns before its POST or its os.Create
SinkCall(sink, fails, how) ==
    IF compression \notin {"none", "lz4", "gzip"}
    THEN [err |-> "unknown compression type", io |-> "none"]
    ELSE IF dryrun THEN [err |-> "", io |-> "none"]
    ELSE IF ~fails THEN [err |-> "", io |-> "ok"]
    ELSE IF sink = "dvid"
    THEN [err |-> IF how = "bad status" THEN "Received bad status from POST"
                  ELSE "http.Post",
          io |-> how]
    ELSE [err |-> "os", io |-> "file error"]

\* a writeLayer that goes on to the next call when one returns an error
writeLayerGoesOn(lay, oz, fate) ==
    LET calls == SlabCalls(lay, oz)
        res == [k \in 1..Len(calls) |-> SinkCall(calls[k].sink, k = fate.at, fate.how)]
        bad == {k \in 1..Len(calls) : res[k].err # ""}
    IN  [ok |-> bad = {},
         err |-> IF bad = {} THEN "" ELSE res[CHOOSE k \in bad : TRUE].err,
         log |-> [k \in 1..Len(calls) |->
                     [sink |-> calls[k].sink, ox |-> calls[k].ox, oy |-> calls[k].oy,
                      oz |-> calls[k].oz, io |-> res[k].io]]]

\* writeLayer(layer, zoffset): [ok, err, log], log the calls it made up to
\* the first that returned an error
writeLayer(lay, oz, fate) ==
    LET calls == SlabCalls(lay, oz)
        res == [k \in 1..Len(calls) |-> SinkCall(calls[k].sink, k = fate.at, fate.how)]
        bad == {k \in 1..Len(calls) : res[k].err # ""}
        last == IF bad = {} THEN Len(calls)
                ELSE CHOOSE k \in bad : \A j \in bad : k <= j
    IN  [ok |-> bad = {},
         err |-> IF bad = {} THEN "" ELSE res[last].err,
         log |-> [k \in 1..last |->
                     [sink |-> calls[k].sink, ox |-> calls[k].ox, oy |-> calls[k].oy,
                      oz |-> calls[k].oz, io |-> res[k].io]]]

\* the calls of a writeLayer as the log of the run keeps them
Logged(log, flush) ==
    [k \in 1..Len(log) |->
        [sink |-> log[k].sink, ox |-> log[k].ox, oy |-> log[k].oy, oz |-> log[k].oz,
         io |-> log[k].io, flush |-> flush]]

----------------------------------------------------------------------------
(* The walk of transformImages. *)

\* the entry of the log of writeLayer calls
Flush(oz, buf, imgs, ok) == [oz |-> oz, buf |-> buf, imgs |-> imgs, ok |-> ok]

\* the size test that wants both sides to differ
SizeDiffersBoth(lay, img) == lay.nx # img.w /\ lay.ny # img.h

\* whether an image does not have the size of the allocated layer
SizeDiffers(lay, img) == lay.nx # img.w \/ lay.ny # img.h

\* the window test made on the slice instead of on its window start
LeavesWindowBySlice(n, z, off) == n # 0 /\ z # off

\* whether the callback writes the past buffer before it stores slice z
LeavesWindow(n, z, off) == n # 0 /\ zhead(z) # off

\* the callback of filepath.Walk for the next file of the directory; wlOK tells
\* whether every delivery of a writeLayer it calls succeeds
WalkFile(wlOK) ==
    /\ pc = "walk"
    /\ walkI < Len(dir)
    /\ walkI' = walkI + 1
    /\ LET i == walkI + 1
           f == dir[i]
           img == f.img
           p == ParseZ(f.name)
           z == p.z
       IN  IF f.stat = "walk error"
           THEN /\ pc' = "error"
                /\ err' = "Error traversing the superpixel image directory"
                /\ UNCHANGED <<layer, zoffset, zInBuf, first, opened, inBuf, flushes,
                               slabs>>
           ELSE IF Ext(f.name) # PngExt
           THEN UNCHANGED <<pc, err, layer, zoffset, zInBuf, first, opened, inBuf,
                            flushes, slabs>>
           ELSE IF p.err # ""
           THEN /\ pc' = "error"
                /\ err' = p.err
                /\ UNCHANGED <<layer, zoffset, zInBuf, first, opened, inBuf, flushes,
                               slabs>>
           ELSE IF OutOfRange(z)
           THEN UNCHANGED <<pc, err, layer, zoffset, zInBuf, first, opened, inBuf,
                            flushes, slabs>>
           ELSE IF f.stat = "no open"
           THEN /\ pc' = "error"
                /\ err' = "Unable to open superpixel image"
                /\ UNCHANGED <<layer, zoffset, zInBuf, first, opened, inBuf, flushes,
                               slabs>>
           ELSE IF img.format # "png"
           THEN /\ pc' = "error"
                /\ err' = "superpixel image was not PNG formatted"
                /\ opened' = Append(opened, i)
                /\ UNCHANGED <<layer, zoffset, zInBuf, first, inBuf, flushes, slabs>>
           ELSE IF FormatOf(img) = "SuperpixelNone"
           THEN /\ pc' = "error"
                /\ err' = "Unable to decode superpixel image of type"
                /\ opened' = Append(opened, i)
                /\ UNCHANGED <<layer, zoffset, zInBuf, first, inBuf, flushes, slabs>>
           ELSE IF layer.buf # <<>> /\ SizeDiffers(layer, img)
           THEN /\ pc' = "error"
                /\ err' = "superpixel image changes sizes"
                /\ opened' = Append(opened, i)
                /\ UNCHANGED <<layer, zoffset, zInBuf, first, inBuf, flushes, slabs>>
           ELSE LET lay == IF layer.buf = <<>> THEN NewLayer(img) ELSE layer
                    off == IF first THEN zhead(z) ELSE zoffset
                IN  /\ opened' = Append(opened, i)
                    /\ first' = FALSE
                    /\ IF LeavesWindow(zInBuf, z, off)
                       THEN \E fate \in Fates(lay, off) :
                            \E w \in {writeLayer(lay, off, fate)},
                               st \in {StoreImage(Zeroed(lay.buf), lay, img, z)} :
                                /\ w.ok = wlOK
                                /\ flushes' = Append(flushes,
                                                     Flush(off, lay.buf, inBuf, w.ok))
                                /\ slabs' = slabs \o Logged(w.log, Len(flushes) + 1)
                                /\ IF ~w.ok
                                   THEN /\ pc' = "error"
                                        /\ err' = w.err
                                        /\ layer' = lay
                                        /\ zoffset' = off
                                        /\ UNCHANGED <<zInBuf, inBuf>>
                                   ELSE /\ zoffset' = zhead(z)
                                        /\ zInBuf' = 1
                                        /\ inBuf' = <<i>>
                                        /\ layer' = [lay EXCEPT !.buf = st.buf]
                                        /\ pc' = IF st.err # "" THEN "error" ELSE pc
                                        /\ err' = IF st.err # "" THEN st.err ELSE err
                       ELSE \E st \in {StoreImage(lay.buf, lay, img, z)} :
                                /\ zoffset' = off
                                /\ zInBuf' = zInBuf + 1
                                /\ inBuf' = Append(inBuf, i)
                                /\ layer' = [lay EXCEPT !.buf = st.buf]
                                /\ pc' = IF st.err # "" THEN "error" ELSE pc
                                /\ err' = IF st.err # "" THEN st.err ELSE err
                                /\ UNCHANGED <<flushes, slabs>>
    /\ UNCHANGED <<errArgs, lineI, seg2body, sp2body, call>>
    /\ UNCHANGED cfgVars

\* the end of transformImages without the write of the unsaved data
FinishNoFlush(wlOK) ==
    /\ pc = "walk"
    /\ walkI >= Len(dir)
    /\ wlOK
    /\ pc' = "done"
    /\ UNCHANGED <<err, errArgs, flushes, slabs, lineI, seg2body, sp2body, walkI, layer,
                   zoffset, zInBuf, first, opened, inBuf, call>>
    /\ UNCHANGED cfgVars

\* the end of transformImages that writes the unsaved data also after the walk
\* has returned an error
FinishAfterError(wlOK) ==
    /\ pc \in {"walk", "error"}
    /\ pc = "walk" => walkI >= Len(dir)
    /\ Len(flushes) <= MaxFiles
    /\ IF zInBuf # 0
       THEN \E fate \in Fates(layer, zoffset) :
            LET w == writeLayer(layer, zoffset, fate)
            IN  /\ w.ok = wlOK
                /\ flushes' = Append(flushes, Flush(zoffset, layer.buf, inBuf, w.ok))
                /\ slabs' = slabs \o Logged(w.log, Len(flushes) + 1)
                /\ pc' = IF w.ok THEN "done" ELSE "error"
                /\ err' = IF w.ok THEN err ELSE w.err
       ELSE /\ wlOK
            /\ pc' = "done"
            /\ UNCHANGED <<err, flushes, slabs>>
    /\ UNCHANGED <<errArgs, lineI, seg2body, sp2body, walkI, layer, zoffset, zInBuf, first,
                   opened, inBuf, call>>
    /\ UNCHANGED cfgVars

\* the end of transformImages, once the walk has returned without an error
Finish(wlOK) ==
    /\ pc = "walk"
    /\ walkI >= Len(dir)
    /\ IF zInBuf # 0
       THEN \E fate \in Fates(layer, zoffset) :
            LET w == writeLayer(layer, zoffset, fate)
            IN  /\ w.ok = wlOK
                /\ flushes' = Append(flushes, Flush(zoffset, layer.buf, inBuf, w.ok))
                /\ slabs' = slabs \o Logged(w.log, Len(flushes) + 1)
                /\ pc' = IF w.ok THEN "done" ELSE "error"
                /\ err' = IF w.ok THEN err ELSE w.err
       ELSE /\ wlOK
            /\ pc' = "done"
            /\ UNCHANGED <<err, flushes, slabs>>
    /\ UNCHANGED <<errArgs, lineI, seg2body, sp2body, walkI, layer, zoffset, zInBuf, first,
                   opened, inBuf, call>>
    /\ UNCHANGED cfgVars

----------------------------------------------------------------------------
(* The inputs the model is run on. *)

Rec(f) == [kind |-> "rec", f |-> f, nl |-> TRUE]
Comment == [kind |-> "comment", f |-> <<>>, nl |-> TRUE]
Blank == [kind |-> "blank", f |-> <<>>, nl |-> TRUE]
Bad == [kind |-> "bad", f |-> <<>>, nl |-> TRUE]
Unterminated(f) == [kind |-> "rec", f |-> f, nl |-> FALSE]

\* the sources of the scenario of the specification
ScenarioSources ==
    [seg |-> <<Rec(<<1, 100>>), Rec(<<2, 200>>)>>,
     sp |-> <<Rec(<<0, 5, 1>>), Rec(<<0, 7, 2>>)>>]

\* sources with labels on several slices
SliceSources ==
    [seg |-> <<Rec(<<1, 100>>), Rec(<<2, 200>>)>>,
     sp |-> <<Rec(<<0, 5, 1>>), Rec(<<0, 7, 2>>), Rec(<<1, 5, 2>>), Rec(<<2, 5, 1>>),
              Rec(<<3, 7, 2>>), Rec(<<9, 5, 1>>), Rec(<<10, 5, 2>>)>>]

\* sources that load: repeated records, comments, a background superpixel, a
\* 24-bit label, a last line without its newline
GoodSources ==
    { ScenarioSources,
      SliceSources,
      [seg |-> <<Rec(<<1, 100>>), Comment, Rec(<<2, 200>>), Rec(<<1, 300>>)>>,
       sp |-> <<Rec(<<0, 5, 2>>), Rec(<<0, 0, 9>>), Rec(<<0, 5, 1>>), Comment,
                Rec(<<1, 7, 2>>), Rec(<<0, 261, 2>>)>>],
      [seg |-> <<Rec(<<1, 100>>), Rec(<<2, 200>>)>>,
       sp |-> <<Rec(<<0, 5, 1>>), Rec(<<0, 16777215, 2>>), Unterminated(<<0, 7, 2>>)>>] }

\* sources whose loading ends with an error
BadSources ==
    { [seg |-> <<Rec(<<1, 100>>)>>, sp |-> <<Rec(<<0, 5, 1>>), Rec(<<0, 7, 9>>)>>],
      [seg |-> <<Rec(<<1, 100>>)>>,
       sp |-> <<Rec(<<0, 5, 1>>), Rec(<<0, 0, 9>>), Rec(<<0, 16777216, 1>>)>>],
      [seg |-> <<Rec(<<1, 100>>), Bad>>, sp |-> <<Rec(<<0, 5, 1>>)>>],
      [seg |-> <<Rec(<<1, 100>>), Blank, Rec(<<2, 200>>)>>, sp |-> <<Rec(<<0, 5, 1>>)>>],
      [seg |-> <<Rec(<<1, 100>>)>>, sp |-> <<Rec(<<0, 5, 1>>), Blank>>],
      [seg |-> <<Rec(<<1, 100>>), Unterminated(<<2, 200>>)>>,
       sp |-> <<Rec(<<0, 5, 1>>), Rec(<<0, 7, 2>>)>>] }

\* the name "s<digits>.<ext>"
SName(digits, ext) == <<115>> \o [k \in 1..Len(digits) |-> 48 + digits[k]] \o ext

Gray16(w, h, ys) ==
    [format |-> "png", type |-> "Gray16", w |-> w, h |-> h,
     pix |-> [k \in 1..Len(ys) |-> [kind |-> "Gray16", R |-> 0, G |-> 0, B |-> 0, Y |-> ys[k]]]]

\* an 8-bit RGBA image (kind "RGBA" or "NRGBA") from its <<R, G, B>> triples
Rgba(kind, w, h, cs) ==
    [format |-> "png", type |-> kind, w |-> w, h |-> h,
     pix |-> [k \in 1..Len(cs) |->
                 [kind |-> kind, R |-> cs[k][1], G |-> cs[k][2], B |-> cs[k][3], Y |-> 0]]]

\* a file whose bytes are of no registered image format, a file with the PNG
\* signature whose body the decoder rejects, and a PNG of a type the switch
\* does not know
Undecodable == [format |-> "", type |-> "nil", w |-> 0, h |-> 0, pix |-> <<>>]
BrokenPng == [format |-> "png", type |-> "nil", w |-> 0, h |-> 0, pix |-> <<>>]
Gray8 == [format |-> "png", type |-> "Gray", w |-> 1, h |-> 1, pix |-> <<>>]

\* a file of the directory: stat is "ok", "no open" when os.Open fails on it
\* and "walk error" when filepath.Walk hands its error to the callback
File(name, img) == [name |-> name, img |-> img, stat |-> "ok"]
Unopenable(name, img) == [name |-> name, img |-> img, stat |-> "no open"]
Untraversable(name) == [name |-> name, img |-> Undecodable, stat |-> "walk error"]

\* files for the pixel loop: the 2x2 image of the scenario, its RGBA twin with
\* one label that needs the G byte, a wider image, and a second slice
PixelFiles ==
    { File(SName(<<0>>, PngExt), Gray16(2, 2, <<5, 7, 0, 5>>)),
      File(SName(<<0, 0>>, PngExt),
           Rgba("NRGBA", 2, 2, <<<<5, 0, 0>>, <<7, 0, 0>>, <<0, 0, 0>>, <<5, 1, 0>>>>)),
      File(SName(<<1>>, PngExt), Gray16(2, 2, <<7, 5, 9, 0>>)) }

RoiFiles ==
    { File(SName(<<0>>, PngExt), Gray16(4, 2, <<5, 7, 0, 5, 7, 5, 5, 7>>)),
      File(SName(<<1>>, PngExt), Gray16(4, 2, <<5, 5, 5, 5, 5, 5, 5, 5>>)),
      File(SName(<<2>>, PngExt),
           Rgba("RGBA", 4, 2, <<<<5, 0, 0>>, <<5, 0, 0>>, <<5, 0, 0>>, <<5, 0, 0>>,
                                <<5, 0, 0>>, <<5, 0, 0>>, <<5, 0, 0>>, <<5, 0, 0>>>>)) }

\* files for the windows: one-pixel slices 0..3, 9 and 10, a slice of another
\* size, a name without a number, a file that is no PNG, two images that the
\* decoding refuses
One(y) == Gray16(1, 1, <<y>>)
WindowFiles ==
    { File(SName(<<0>>, PngExt), One(5)),
      File(SName(<<1>>, PngExt), One(5)),
      File(SName(<<1, 0>>, PngExt), One(5)),
      File(SName(<<2>>, PngExt), One(5)),
      File(SName(<<2>>, PngExt), Gray16(2, 1, <<5, 0>>)),
      File(SName(<<3>>, PngExt), One(7)),
      File(SName(<<3>>, PngExt), Undecodable),
      File(SName(<<9>>, PngExt), One(5)),
      File(SName(<<9>>, PngExt), Gray8),
      File(SName(<<>>, PngExt), One(5)),
      File(SName(<<1>>, <<46, 116, 120, 116>>), Undecodable) }

\* the directories made of at most MaxFiles files of a set, no name twice
Dirs(files) ==
    { d \in SUBSET files :
        /\ Cardinality(d) <= MaxFiles
        /\ \A f, g \in d : f.name = g.name => f = g }

\* the z ranges: the default of main.go, and two narrower ones
ZRanges == { <<0, 2147483647>>, <<0, 1>>, <<2, 9>> }

NoRoi == [isNil |-> TRUE, spans |-> <<>>]

\* the spans of blocks 0..2 in x, 0..1 in y and z
Spans == { <<z, y, x0, x1>> : z \in 0..1, y \in 0..1, x0 \in 0..2, x1 \in 0..2 }

\* (z, y, x0) of s before (z, y, x0) of t, and no overlap in the same row
SpanBefore(s, t) ==
    \/ s[1] < t[1]
    \/ s[1] = t[1] /\ s[2] < t[2]
    \/ s[1] = t[1] /\ s[2] = t[2] /\ s[4] < t[3]

\* the ROIs a sorted JSON file of at most n well-formed spans gives
SortedRois(n) ==
    { [isNil |-> FALSE, spans |-> l] :
        l \in { m \in UNION { [1..k -> {s \in Spans : s[3] <= s[4]}] : k \in 0..n } :
                  \A a \in 1..Len(m), b \in 1..Len(m) : a < b => SpanBefore(m[a], m[b]) } }

NoCall == [fn |-> "none"]

\* where the slabs go: the flags slabX, slabY, url, outdir, compress and dryrun
Sink(sx, sy, u, o, c, dry) ==
    [slabX |-> sx, slabY |-> sy, url |-> u, outdir |-> o, compression |-> c,
     dryrun |-> dry, outdirIs |-> "dir"]

\* slabs of 2 x 2 voxels posted to DVID as they are
ToDVID == Sink(2, 2, "http://dvid", "", "none", FALSE)

\* slabs of 4 x 2 voxels written to files as they are
ToFile == Sink(4, 2, "", "out", "none", FALSE)

\* the state in which processRavelerExport starts on a configuration; found
\* is what the opens and the reads of the three input files find
StartOn(found, sink, z, zr, off, bs, r, src, files) ==
    /\ slabX = sink.slabX
    /\ slabY = sink.slabY
    /\ url = sink.url
    /\ outdir = sink.outdir
    /\ compression = sink.compression
    /\ dryrun = sink.dryrun
    /\ outdirIs = sink.outdirIs
    /\ slabZ = z
    /\ minz = zr[1]
    /\ maxz = zr[2]
    /\ bodyoffset = off
    /\ roiBlocksize = bs
    /\ roiSrc = r
    /\ roiIs = found.roiIs
    /\ segSrc = src.seg
    /\ segIs = found.segIs
    /\ spSrc = src.sp
    /\ spIs = found.spIs
    /\ dir = WalkOrder(files)
    /\ roi = NoRoi
    /\ pc = "loadRoi"
    /\ err = ""
    /\ errArgs = {}
    /\ lineI = 0
    /\ seg2body = EmptyMap
    /\ sp2body = EmptyMap
    /\ walkI = 0
    /\ layer = NilLayer
    /\ zoffset = 0
    /\ zInBuf = 0
    /\ first = TRUE
    /\ opened = <<>>
    /\ inBuf = <<>>
    /\ flushes = <<>>
    /\ slabs = <<>>
    /\ call = NoCall

\* input files that open and read: -roi is given when r is a list of spans
Readable(r) ==
    [roiIs |-> IF r.isNil THEN "no flag" ELSE "ok", segIs |-> "ok", spIs |-> "ok"]

StartTo(sink, z, zr, off, bs, r, src, files) ==
    StartOn(Readable(r), sink, z, zr, off, bs, r, src, files)

Start(z, zr, off, bs, r, src, files) == StartTo(ToDVID, z, zr, off, bs, r, src, files)

\* runs that vary the tables and the offset
InitTables ==
    \E z \in 1..MaxSlabZ, off \in {0, 1000}, src \in GoodSources \cup BadSources,
       r \in {NoRoi, [isNil |-> FALSE, spans |-> << <<0, 0, 0, 0>>, <<0, 1, 1, 1>> >>]},
       files \in Dirs(PixelFiles) :
        Start(z, <<0, 2147483647>>, off, 1, r, src, files)

\* runs that vary the ROI and its block size
InitRoi ==
    \E bs \in 1..MaxBlocksize, r \in SortedRois(MaxSpans), files \in Dirs(RoiFiles) :
        StartTo(ToFile, 2, <<0, 2147483647>>, 0, bs, r, SliceSources, files)

\* runs that vary the directory, the slab thickness and the z range
InitWindows ==
    \E z \in 1..MaxSlabZ, zr \in ZRanges, off \in {0, 1000}, files \in Dirs(WindowFiles) :
        Start(z, zr, off, 1, NoRoi, SliceSources, files)

\* files whose names are not zero-padded: slice 20 sorts between slices 2 and 3
OrderFiles ==
    { File(SName(<<2>>, PngExt), One(5)),
      File(SName(<<2, 0>>, PngExt), One(7)),
      File(SName(<<3>>, PngExt), One(5)) }

\* runs that write files from names of unequal width
InitOrder ==
    \E z \in 1..MaxSlabZ, off \in {0, 1000}, files \in Dirs(OrderFiles) :
        StartTo(ToFile, z, <<0, 2147483647>>, off, 1, NoRoi, SliceSources, files)

\* a name of twenty digits: a number above the largest int
TwentyNines == [k \in 1..20 |-> 9]

\* files that end the walk: a number strconv.Atoi refuses, a file os.Open
\* fails on, a PNG with a broken body, an entry filepath.Walk cannot read;
\* before them a slice of background and a slice with a body
FaultFiles ==
    { File(SName(<<0>>, PngExt), One(0)),
      File(SName(<<1>>, PngExt), One(5)),
      Unopenable(SName(<<2>>, PngExt), One(5)),
      File(SName(<<3>>, PngExt), BrokenPng),
      Untraversable(SName(<<4>>, <<>>)),
      File(SName(TwentyNines, PngExt), One(5)) }

\* what can be at the path of -outdir
OutdirStates == {"dir", "absent", "blocked", "file", "no stat"}

\* runs to both sinks that vary what is at the output path and the dry run,
\* with a negative body offset
InitFaults ==
    \E z \in 1..MaxSlabZ, is \in OutdirStates, dry \in BOOLEAN, files \in Dirs(FaultFiles) :
        StartTo([Sink(2, 2, "http://dvid", "out", "none", dry) EXCEPT !.outdirIs = is],
                z, <<0, 2147483647>>, 0 - 1, 1, NoRoi, SliceSources, files)

\* three slices of 3 x 2 pixels, which slabs of 2 x 2 do not tile evenly
SlabFiles ==
    { File(SName(<<0>>, PngExt), Gray16(3, 2, <<5, 7, 0, 5, 7, 9>>)),
      File(SName(<<1>>, PngExt), Gray16(3, 2, <<5, 5, 0, 5, 5, 5>>)),
      File(SName(<<2>>, PngExt), Gray16(3, 2, <<5, 0, 5, 0, 5, 0>>)) }

\* the values of -compress: the three compress knows and one it does not
Compressions == {"none", "lz4", "gzip", "zip"}

\* the sinks main accepts: at least one of url and outdir is set
SinkChoices ==
    { Sink(sx, sy, u, o, c, dry) :
        sx \in 1..MaxSlab, sy \in 1..MaxSlab, u \in {"", "http://dvid"},
        o \in {"", "out"}, c \in Compressions, dry \in BOOLEAN } \
    { k \in [slabX : 1..MaxSlab, slabY : 1..MaxSlab, url : {""}, outdir : {""},
             compression : Compressions, dryrun : BOOLEAN, outdirIs : {"dir"}] : TRUE }

\* runs that vary the slab size, the sinks, the compression and the dry run
InitSinks ==
    \E sink \in SinkChoices, z \in 1..MaxSlabZ, files \in Dirs(SlabFiles) :
        StartTo(sink, z, <<0, 2147483647>>, 1000, 1, NoRoi, SliceSources, files)

\* what the run can find at *roiFile: no flag, a list of spans, the JSON
\* null, and the three failures
RoiFound ==
    { [is |-> "no flag", roi |-> NoRoi],
      [is |-> "ok", roi |-> [isNil |-> FALSE, spans |-> << <<0, 0, 0, 0>> >>]],
      [is |-> "ok", roi |-> NoRoi],
      [is |-> "no open", roi |-> NoRoi],
      [is |-> "no read", roi |-> NoRoi],
      [is |-> "bad json", roi |-> NoRoi] }

OpenStates == {"ok", "no open"}

\* runs that vary what the opens and the reads of the input files find
InitInputs ==
    \E rf \in RoiFound, sg \in OpenStates, sp \in OpenStates, z \in 1..MaxSlabZ,
       src \in {SliceSources, [seg |-> <<>>, sp |-> <<>>]}, files \in Dirs(PixelFiles) :
        StartOn([roiIs |-> rf.is, segIs |-> sg, spIs |-> sp], ToDVID, z,
                <<0, 2147483647>>, 0, 1, rf.roi, src, files)

Init ==
    InitTables \/ InitRoi \/ InitWindows \/ InitOrder \/ InitFaults \/ InitInputs
    \/ InitSinks

Next ==
    \/ LoadRoi
    \/ OpenSeg
    \/ LoadSegLine
    \/ OpenSp
    \/ LoadSpLine
    \/ EnterTransform
    \/ \E wlOK \in BOOLEAN : WalkFile(wlOK)
    \/ \E wlOK \in BOOLEAN : Finish(wlOK)

Spec == Init /\ [][Next]_vars

----------------------------------------------------------------------------
(* Single functions run on their own inputs. *)

\* the state of the program outside the function that is run
OutsideTo(sink, z, r) ==
    /\ slabX = sink.slabX
    /\ slabY = sink.slabY
    /\ url = sink.url
    /\ outdir = sink.outdir
    /\ compression = sink.compression
    /\ dryrun = sink.dryrun
    /\ outdirIs = sink.outdirIs
    /\ slabZ = z
    /\ minz = 0
    /\ maxz = 2147483647
    /\ bodyoffset = 0
    /\ roiBlocksize = 1
    /\ roiSrc = r
    /\ roiIs = IF r.isNil THEN "no flag" ELSE "ok"
    /\ roi = r
    /\ segSrc = <<>>
    /\ segIs = "ok"
    /\ spSrc = <<>>
    /\ spIs = "ok"
    /\ dir = <<>>
    /\ pc = "call"
    /\ err = ""
    /\ errArgs = {}
    /\ lineI = 0
    /\ seg2body = EmptyMap
    /\ sp2body = EmptyMap
    /\ walkI = 0
    /\ layer = NilLayer
    /\ zoffset = 0
    /\ zInBuf = 0
    /\ first = TRUE
    /\ opened = <<>>
    /\ inBuf = <<>>
    /\ flushes = <<>>
    /\ slabs = <<>>

Outside(z, r) == OutsideTo(ToDVID, z, r)

\* every list of at most MaxSpans spans, sorted or not, well-formed or not
SpanLists == UNION { [1..k -> { <<z, y, x0, x1>> : z \in 0..1, y \in 0..1,
                                                  x0 \in 0..1, x1 \in 0..1 }] :
                     k \in 0..MaxSpans }

InitSeek ==
    \E l \in SpanLists, x \in 0..1, y \in 0..1, z \in 0..1, c \in 0..(MaxSpans + 1) :
        /\ Outside(1, [isNil |-> FALSE, spans |-> l])
        /\ call = [fn |-> "seekSpan", block |-> <<x, y, z>>, curSpanI |-> c,
                   done |-> FALSE, ret |-> <<0, FALSE>>]

\* seekSpan(block, roi, curSpanI)
SeekCall ==
    /\ pc = "call"
    /\ call.fn = "seekSpan"
    /\ ~call.done
    /\ call' = [call EXCEPT !.done = TRUE,
                            !.ret = seekSpan(call.block, roi.spans, call.curSpanI)]
    /\ UNCHANGED runVars
    /\ UNCHANGED cfgVars

SpecSeek == InitSeek /\ [][SeekCall]_vars

\* the strings of 1..n decimal digits
DigitStrings(n) == UNION { [1..k -> 0..9] : k \in 1..n }

InitZhead ==
    \E d \in DigitStrings(MaxDigits), nz \in 1..MaxDepth :
        /\ Outside(nz, NoRoi)
        /\ call = [fn |-> "zhead", name |-> SName(d, PngExt), done |-> FALSE,
                   z |-> 0, ret |-> 0, zbuf |-> 0]

\* zhead(z) and z % layer.nz for the z of a file name, as the callback computes them
ZheadCall ==
    /\ pc = "call"
    /\ call.fn = "zhead"
    /\ ~call.done
    /\ LET z == ParseZ(call.name).z
       IN  call' = [call EXCEPT !.done = TRUE, !.z = z, !.ret = zhead(z),
                                !.zbuf = ZSlot(z, slabZ)]
    /\ UNCHANGED runVars
    /\ UNCHANGED cfgVars

SpecZhead == InitZhead /\ [][ZheadCall]_vars

\* a layer of nx x ny x nz voxels whose voxel of index i holds seed * (i + 1)
LayerOf(nx, ny, nz, seed) ==
    [buf |-> [k \in 1..(nx * ny * nz) |-> seed * k], nx |-> nx, ny |-> ny, nz |-> nz,
     nxy |-> nx * ny, nxyz |-> nx * ny * nz]

\* body ids of one, two and three bytes
Seeds == {1, 300, 70000}

InitSlab ==
    \E sx \in 1..MaxSlab, sy \in 1..MaxSlab, z \in 1..MaxSlabZ, c \in Compressions,
       nx \in 1..MaxSide, ny \in 1..MaxSide, seed \in Seeds :
        /\ OutsideTo(Sink(sx, sy, "http://dvid", "", c, FALSE), z, NoRoi)
        /\ \E t \in 1..Len(TileOrigins(LayerOf(nx, ny, z, seed))) :
              call = [fn |-> "writeLayer", layer |-> LayerOf(nx, ny, z, seed),
                      ox |-> TileOrigins(LayerOf(nx, ny, z, seed))[t][1],
                      oy |-> TileOrigins(LayerOf(nx, ny, z, seed))[t][2],
                      done |-> FALSE, slabBuf |-> <<>>, err |-> "",
                      out |-> [codec |-> "", data |-> <<>>]]

\* one iteration of the loop over the tiles in writeLayer: the slab is
\* filled, and compressed as writeDVID and writeFile do
SlabCall ==
    /\ pc = "call"
    /\ call.fn = "writeLayer"
    /\ ~call.done
    /\ LET buf == slabBuf(call.layer, call.ox, call.oy)
       IN  call' = [call EXCEPT !.done = TRUE, !.slabBuf = buf,
                                !.err = compress(buf).err, !.out = compress(buf).out]
    /\ UNCHANGED runVars
    /\ UNCHANGED cfgVars

SpecSlab == InitSlab /\ [][SlabCall]_vars

\* what http.Post returns: a transport error, or a response with a status
Responses ==
    { [err |-> FALSE, code |-> c] : c \in {200, 503, 404, 500} } \cup
    { [err |-> TRUE, code |-> 0] }

\* writeDVID is called with a slab of a layer of 3 x 2 voxels
InitDVID ==
    \E c \in Compressions, dry \in BOOLEAN, z \in 1..MaxSlabZ, w \in 0..1,
       seed \in Seeds :
        /\ OutsideTo(Sink(2, 2, "http://dvid", "", c, dry), z, NoRoi)
        /\ \E t \in 1..Len(TileOrigins(LayerOf(3, 2, z, seed))) :
              call = [fn |-> "writeDVID",
                      slabBuf |-> slabBuf(LayerOf(3, 2, z, seed),
                                          TileOrigins(LayerOf(3, 2, z, seed))[t][1],
                                          TileOrigins(LayerOf(3, 2, z, seed))[t][2]),
                      ox |-> TileOrigins(LayerOf(3, 2, z, seed))[t][1],
                      oy |-> TileOrigins(LayerOf(3, 2, z, seed))[t][2],
                      oz |-> w * z, at |-> "start", ret |-> "", posts |-> 0,
                      reqs |-> {}, status |-> 0, accepted |-> 0, slept |-> 0]

\* writeDVID up to its loop: the address, the compression and the dry run
DVIDEnter ==
    /\ pc = "call"
    /\ call.fn = "writeDVID"
    /\ call.at = "start"
    /\ call' = IF compress(call.slabBuf).err # ""
               THEN [call EXCEPT !.at = "ret", !.ret = compress(call.slabBuf).err]
               ELSE IF dryrun
               THEN [call EXCEPT !.at = "ret", !.ret = "nil"]
               ELSE [call EXCEPT !.at = "loop"]
    /\ UNCHANGED runVars
    /\ UNCHANGED cfgVars

\* one iteration of the loop of writeDVID: the POST, the switch on what
\* came back, and the sleep of Timeout(r) seconds before the next iteration
DVIDPost(resp, r) ==
    /\ pc = "call"
    /\ call.fn = "writeDVID"
    /\ call.at = "loop"
    /\ LET sent == [call EXCEPT
                       !.posts = IF call.posts < MaxPosts THEN call.posts + 1
                                 ELSE call.posts,
                       !.reqs = call.reqs \cup
                                { [url |-> PostURL(call.ox, call.oy, call.oz),
                                   body |-> compress(call.slabBuf).out] },
                       !.status = resp.code]
       IN  call' = IF resp.err
                   THEN [sent EXCEPT !.at = "ret", !.ret = "http.Post"]
                   ELSE IF OnStatus(resp.code) = "nil"
                   THEN [sent EXCEPT !.at = "ret", !.ret = "nil", !.accepted = 1]
                   ELSE IF OnStatus(resp.code) = "retry"
                   THEN [sent EXCEPT !.slept = Timeout(r)]
                   ELSE [sent EXCEPT !.at = "ret",
                                     !.ret = "Received bad status from POST"]
    /\ UNCHANGED runVars
    /\ UNCHANGED cfgVars

NextDVID ==
    \/ DVIDEnter
    \/ \E resp \in Responses, r \in 0..29 : DVIDPost(resp, r)

SpecDVID == InitDVID /\ [][NextDVID]_vars

\* the values of the flags -slabX and -slabY: main tests neither, so zero and
\* the negative integers pass as the positive ones do
SlabFlags == (0 - 1)..MaxSlab

\* the sinks main accepts, with any slab width and height
AcceptedSinks ==
    { Sink(sx, sy, u, o, "none", FALSE) :
        sx \in SlabFlags, sy \in SlabFlags, u \in {"", "http://dvid"}, o \in {"", "out"} } \
    { Sink(sx, sy, "", "", "none", FALSE) : sx \in SlabFlags, sy \in SlabFlags }

\* writeLayer is entered with an allocated layer of nx x ny voxels; n counts
\* the slabs made, posts and files the calls of writeDVID and writeFile
InitTiles ==
    \E sink \in AcceptedSinks, z \in 1..MaxSlabZ, nx \in 1..MaxSide, ny \in 1..MaxSide :
        /\ OutsideTo(sink, z, NoRoi)
        /\ call = [fn |-> "writeLayerLoop", nx |-> nx, ny |-> ny, at |-> "oy",
                   ox |-> 0, oy |-> 0, n |-> 0, posts |-> 0, files |-> 0, ret |-> ""]

\* the test of the loop over oy: the loop over ox starts, or writeLayer
\* returns nil
TilesOuter ==
    /\ pc = "call"
    /\ call.fn = "writeLayerLoop"
    /\ call.at = "oy"
    /\ call' = IF call.oy < call.ny
               THEN [call EXCEPT !.at = "ox", !.ox = 0]
               ELSE [call EXCEPT !.at = "ret", !.ret = "nil"]
    /\ UNCHANGED runVars
    /\ UNCHANGED cfgVars

\* the test of the loop over ox and one pass of its body: the slab is made,
\* which panics for a negative size, and given to the configured sinks, each
\* of which returns nil; then ox += slabX.  When the test fails, oy += slabY.
\* The slabs made are counted up to one more than the layer has voxels in a
\* slice.
TilesInner ==
    /\ pc = "call"
    /\ call.fn = "writeLayerLoop"
    /\ call.at = "ox"
    /\ IF call.ox >= call.nx
       THEN call' = [call EXCEPT !.at = "oy", !.oy = call.oy + slabY]
       ELSE IF slabZ * slabY * slabX * 8 < 0
       THEN call' = [call EXCEPT !.at = "ret",
                                 !.ret = "panic: makeslice: len out of range"]
       ELSE /\ call.n <= call.nx * call.ny
            /\ call' = [call EXCEPT !.n = call.n + 1,
                                    !.posts = IF url # "" THEN call.posts + 1 ELSE call.posts,
                                    !.files = IF outdir # "" THEN call.files + 1
                                              ELSE call.files,
                                    !.ox = call.ox + slabX]
    /\ UNCHANGED runVars
    /\ UNCHANGED cfgVars

NextTiles == TilesOuter \/ TilesInner

SpecTiles == InitTiles /\ [][NextTiles]_vars

----------------------------------------------------------------------------
(* The properties.  They are stated on what a run leaves behind: the       *)
(* layer, the log of the opened files and the log of the writeLayer calls. *)

\* the file the walk visited last, and the one it visits next
Cur == dir[walkI]
NextFile == dir[walkI + 1]

\* the Z slice of a file
ZOf(f) == ParseZ(f.name).z

\* the last step stored the image of Cur into the layer
Stored == inBuf # <<>> /\ inBuf[Len(inBuf)] = walkI

\* the independent ROI test: some span covers the block of pixel (x, y) of slice z
Member(x, y, z) ==
    \E k \in 1..Len(roi.spans) :
        LET s == roi.spans[k]
        IN  /\ s[1] = z \div roiBlocksize
            /\ s[2] = y \div roiBlocksize
            /\ s[3] <= x \div roiBlocksize
            /\ x \div roiBlocksize <= s[4]

Included(x, y, z) == roi.isNil \/ Member(x, y, z)

\* the span list is sorted by (z, y, x0) and its spans do not overlap
IsSorted(l) == \A a \in 1..Len(l), b \in 1..Len(l) : a < b => SpanBefore(l[a], l[b])

\* the label of pixel (x, y) of an image
LabelAt(img, x, y) == getSuperpixelId(img.pix[y * img.w + x + 1], FormatOf(img)).id

\* the layer cell of pixel (x, y) of slice z in a buffer
CellOf(buf, img, x, y, z) == buf[(z % slabZ) * (img.w * img.h) + y * img.w + x + 1]

\* the indices of the record lines of the two sources for a superpixel and a
\* segment, with or without a newline at their end
SpRecords(z, label) ==
    {j \in 1..Len(spSrc) : /\ spSrc[j].kind = "rec"
                           /\ spSrc[j].f[1] = z /\ spSrc[j].f[2] = label}
SegRecords(seg) ==
    {j \in 1..Len(segSrc) : segSrc[j].kind = "rec" /\ segSrc[j].f[1] = seg}

\* those of them that end with a newline, which are the ones the loops parse
SpLines(z, label) ==
    {j \in 1..Len(spSrc) : /\ spSrc[j].kind = "rec" /\ spSrc[j].nl
                           /\ spSrc[j].f[1] = z /\ spSrc[j].f[2] = label}
SegLines(seg) ==
    {j \in 1..Len(segSrc) : /\ segSrc[j].kind = "rec" /\ segSrc[j].nl
                            /\ segSrc[j].f[1] = seg}
MaxOf(S) == CHOOSE j \in S : \A k \in S : k <= j

\* C1: after an accepted image of slice z has been stored, every pixel that
\* passes the ROI filter and whose label L is not 0 holds, when the sources have
\* records (z, L, s) and (s, b) (the last ones when repeated), the body b plus
\* the body offset, at its position of depth slot z mod depth.
C1_ResolvedBody ==
    Stored =>
        LET img == Cur.img
            z == ZOf(Cur)
        IN  \A x \in 0..(img.w - 1), y \in 0..(img.h - 1) :
                LET label == LabelAt(img, x, y)
                IN  (Included(x, y, z) /\ label # 0 /\ SpRecords(z, label) # {}) =>
                        LET seg == spSrc[MaxOf(SpRecords(z, label))].f[3]
                        IN  SegRecords(seg) # {} =>
                                CellOf(layer.buf, img, x, y, z)
                                    = segSrc[MaxOf(SegRecords(seg))].f[2] + bodyoffset

\* C2: a pixel whose label is 0 is stored as body 0, whatever the table holds
\* and also when a body offset is configured.
C2_ZeroLabelIsBodyZero ==
    Stored =>
        \A x \in 0..(Cur.img.w - 1), y \in 0..(Cur.img.h - 1) :
            (Included(x, y, ZOf(Cur)) /\ LabelAt(Cur.img, x, y) = 0) =>
                CellOf(layer.buf, Cur.img, x, y, ZOf(Cur)) = 0

\* C3: with a sorted span list, a pixel of an accepted image is decoded and
\* stored if and only if some span covers its block; the cursor threaded through
\* seekSpan gives the answer of the independent test, and an excluded pixel is
\* left at 0.
C3_RoiFilter ==
    (Stored /\ ~roi.isNil /\ IsSorted(roi.spans)) =>
        LET img == Cur.img
            z == ZOf(Cur)
        IN  \A x \in 0..(img.w - 1), y \in 0..(img.h - 1) :
                /\ InROI(img.w, z, x, y) = Member(x, y, z)
                /\ CellOf(layer.buf, img, x, y, z)
                       = IF Member(x, y, z) THEN BodyOf(LabelAt(img, x, y), z) ELSE 0

\* an image stored under a two-span ROI: one pixel in, with a body, one pixel out
C3_Witness ==
    /\ Stored
    /\ ~roi.isNil
    /\ Len(roi.spans) = 2
    /\ roiBlocksize = 2
    /\ \E x \in 0..(Cur.img.w - 1), y \in 0..(Cur.img.h - 1) :
           Member(x, y, ZOf(Cur)) /\ CellOf(layer.buf, Cur.img, x, y, ZOf(Cur)) # 0
    /\ \E x \in 0..(Cur.img.w - 1), y \in 0..(Cur.img.h - 1) :
           ~Member(x, y, ZOf(Cur)) /\ LabelAt(Cur.img, x, y) # 0

\* C4: seekSpan(b, roi, c0) returns (c, inc) with c0 <= c <= max(c0, len(roi)),
\* every span of [c0, c) Less than b, the span at c (if any) not Less than b, and
\* inc true exactly when the span at c has the row of b and covers its x.
C4_SeekSpan ==
    (call.fn = "seekSpan" /\ call.done) =>
        LET b == call.block
            l == roi.spans
            n == Len(l)
            c0 == call.curSpanI
            c == call.ret[1]
            inc == call.ret[2]
            IsLess(t) == \/ t[1] < b[3]
                         \/ t[1] = b[3] /\ t[2] < b[2]
                         \/ t[1] = b[3] /\ t[2] = b[2] /\ t[4] < b[1]
        IN  /\ c0 <= c
            /\ c <= (IF c0 > n THEN c0 ELSE n)
            /\ \A k \in c0..(c - 1) : IsLess(l[k + 1])
            /\ c < n => ~IsLess(l[c + 1])
            /\ inc <=> /\ c < n
                       /\ l[c + 1][1] = b[3]
                       /\ l[c + 1][2] = b[2]
                       /\ l[c + 1][3] <= b[1]
                       /\ b[1] <= l[c + 1][4]

\* a call that moved the cursor forward and found the block
C4_Witness ==
    /\ call.fn = "seekSpan"
    /\ call.done
    /\ call.ret[1] > call.curSpanI
    /\ call.ret[2]

\* C5: for the z of a file name and slabZ >= 1, zhead(zhead(z)) = zhead(z),
\* zhead(z) <= z < zhead(z) + slabZ, zhead(z) is the multiple
\* floor(z / slabZ) * slabZ, and the depth slot z mod slabZ is z - zhead(z).
C5_Zhead ==
    (call.fn = "zhead" /\ call.done) =>
        LET z == call.z
            h == call.ret
        IN  /\ z >= 0
            /\ zhead(h) = h
            /\ h <= z
            /\ z < h + slabZ
            /\ h % slabZ = 0
            /\ h = (z \div slabZ) * slabZ
            /\ call.zbuf = z - h

\* a slice in the middle of a window that is not the first one
C5_Witness ==
    /\ call.fn = "zhead"
    /\ call.done
    /\ slabZ > 1
    /\ call.ret > 0
    /\ call.ret < call.z

\* the walk visits the next file in this step
Visiting == pc = "walk" /\ walkI < Len(dir) /\ walkI' = walkI + 1

\* the name of the file is a PNG name with a Z slice in it
Parsable(f) == Ext(f.name) = PngExt /\ ParseZ(f.name).err = ""

\* the file is an image of this size whose pixels the callback goes on to store
Accepted(f) ==
    /\ f.stat = "ok"
    /\ Parsable(f)
    /\ minz <= ZOf(f)
    /\ ZOf(f) <= maxz
    /\ f.img.format = "png"
    /\ f.img.type \in {"Gray16", "RGBA", "NRGBA"}
    /\ layer.buf = <<>> \/ (layer.nx = f.img.w /\ layer.ny = f.img.h)

\* the cells of depth slot n of a buffer of slices of nxy cells
SlotCells(n, nxy) == (n * nxy + 1)..((n + 1) * nxy)

\* C6: an accepted image whose window start differs from the buffered one, with
\* at least one image accumulated, makes the callback call writeLayer on the
\* whole layer as it was, with the old window start, then zero the layer, set
\* the buffered window start to zhead(z) and only then store the pixels (a failed
\* writeLayer leaves the layer as it was); an accepted image of the buffered
\* window causes no writeLayer call and no zeroing.
C6_FlushOnWindowChange ==
    [][ (Visiting /\ Accepted(NextFile)) =>
          LET f == NextFile
              z == ZOf(f)
              slot == SlotCells(z % slabZ, f.img.w * f.img.h)
          IN  IF zInBuf # 0 /\ zhead(z) # zoffset
              THEN /\ flushes' = Append(flushes,
                                        Flush(zoffset, layer.buf, inBuf, pc' = "walk"))
                   /\ pc' # "walk" => layer' = layer
                   /\ pc' = "walk" =>
                          /\ zoffset' = zhead(z)
                          /\ zInBuf' = 1
                          /\ \A k \in 1..Len(layer'.buf) :
                                 k \notin slot => layer'.buf[k] = 0
                          /\ \A x \in 0..(f.img.w - 1), y \in 0..(f.img.h - 1) :
                                 CellOf(layer'.buf, f.img, x, y, z)
                                     = IF Included(x, y, z)
                                       THEN BodyOf(LabelAt(f.img, x, y), z) ELSE 0
              ELSE /\ flushes' = flushes
                   /\ pc' = "walk"
                   /\ zInBuf' = zInBuf + 1
                   /\ \A k \in 1..Len(layer.buf) :
                          k \notin slot => layer'.buf[k] = layer.buf[k] ]_vars

\* a window was written and zeroed, and the walk went on in another window:
\* a cell that was written out with a body is 0 now
C6_Witness ==
    /\ pc = "walk"
    /\ Len(flushes) = 1
    /\ flushes[1].ok
    /\ zoffset # flushes[1].oz
    /\ \E k \in 1..Len(layer.buf) : flushes[1].buf[k] # 0 /\ layer.buf[k] = 0
    /\ \E k \in 1..Len(layer.buf) : layer.buf[k] # 0

Range(q) == {q[k] : k \in 1..Len(q)}

\* C7: on a run that returns without an error, the last writeLayer call is the
\* final one, made on the layer with the buffered window start; every accepted
\* image is among the images of exactly one writeLayer call, made after it was
\* stored; a run that accepted no image made no writeLayer call.
C7_FinalFlush ==
    pc = "done" =>
        /\ opened = <<>> => flushes = <<>>
        /\ opened # <<>> =>
               /\ flushes # <<>>
               /\ flushes[Len(flushes)] = Flush(zoffset, layer.buf, inBuf, TRUE)
        /\ \A i \in Range(opened) :
               Cardinality({k \in 1..Len(flushes) : i \in Range(flushes[k].imgs)}) = 1
        /\ \A k \in 1..Len(flushes) : flushes[k].ok

\* a run of three accepted images in two windows that returned without an error
C7_Witness ==
    /\ pc = "done"
    /\ Len(opened) = 3
    /\ Len(flushes) = 2
    /\ Len(inBuf) = 2

\* C8: the accepted images are opened in ascending order of their Z slice.
C8_AscendingZ ==
    \A a \in 1..Len(opened), b \in 1..Len(opened) :
        a < b => ZOf(dir[opened[a]]) <= ZOf(dir[opened[b]])

\* C9: an image whose Z is below minz or above maxz is skipped: the step opens
\* nothing, raises no error and leaves the layer, the buffered window start, the
\* slice count and the writeLayer log as they were; an image whose Z is minz or
\* maxz (of a range that is not empty) is opened.
C9_RangeSkip ==
    [][ (Visiting /\ Parsable(NextFile)) =>
          LET z == ZOf(NextFile)
          IN  /\ (z < minz \/ z > maxz) =>
                     UNCHANGED <<pc, err, layer, zoffset, zInBuf, first, opened, inBuf,
                                 flushes>>
              /\ ((z = minz \/ z = maxz) /\ minz <= maxz) =>
                     opened' = Append(opened, walkI + 1) ]_vars

\* after an image at maxz was accepted, a file below or above the range, which
\* is no image of the layer's size, was walked over without an error
C9_Witness ==
    /\ pc = "walk"
    /\ walkI >= 1
    /\ Parsable(Cur)
    /\ ZOf(Cur) > maxz
    /\ layer.buf # <<>>
    /\ Cur.img.format # "png" \/ Cur.img.w # layer.nx
    /\ \E i \in Range(opened) : ZOf(dir[i]) = maxz

\* C10: the first accepted image fixes the layer's nx and ny, slabZ fixes its
\* depth; a later image of the z range that decodes but has another width or
\* height ends the run with an error, the layer and the writeLayer log left as
\* they were; the dimensions of an allocated layer never change.
C10_LayerSize ==
    [][ /\ (Visiting /\ Accepted(NextFile) /\ layer.buf = <<>>) =>
               /\ layer'.nx = NextFile.img.w
               /\ layer'.ny = NextFile.img.h
               /\ layer'.nz = slabZ
               /\ Len(layer'.buf) = NextFile.img.w * NextFile.img.h * slabZ
        /\ (/\ Visiting
            /\ Parsable(NextFile)
            /\ minz <= ZOf(NextFile)
            /\ ZOf(NextFile) <= maxz
            /\ NextFile.img.type \in {"Gray16", "RGBA", "NRGBA"}
            /\ layer.buf # <<>>
            /\ (NextFile.img.w # layer.nx \/ NextFile.img.h # layer.ny)) =>
               /\ pc' = "error"
               /\ layer' = layer
               /\ flushes' = flushes
        /\ layer.buf # <<>> =>
               /\ layer'.nx = layer.nx
               /\ layer'.ny = layer.ny
               /\ layer'.nz = layer.nz
               /\ Len(layer'.buf) = Len(layer.buf) ]_vars

\* an image of another size, in another window than the buffered one, ended the
\* run before the buffered window was written
C10_Witness ==
    /\ pc = "error"
    /\ err = "superpixel image changes sizes"
    /\ zInBuf # 0
    /\ zhead(ZOf(Cur)) # zoffset
    /\ flushes = <<>>
    /\ \E k \in 1..Len(layer.buf) : layer.buf[k] # 0

----------------------------------------------------------------------------
(* The delivery of the slabs. *)

\* the slabs of flush k that sink s has accepted
Delivered(k, s) ==
    {i \in 1..Len(slabs) : slabs[i].flush = k /\ slabs[i].sink = s /\ slabs[i].io = "ok"}

\* the tile origins of a layer of nx x ny voxels
Origins(nx, ny) ==
    { o \in (0..(nx - 1)) \X (0..(ny - 1)) : o[1] % slabX = 0 /\ o[2] % slabY = 0 }

Min(a, b) == IF a < b THEN a ELSE b

\* the voxels <<x, y, z>> of the tile at <<ox, oy>>
Box(ox, oy, nx, ny) ==
    (ox..(Min(ox + slabX, nx) - 1)) \X (oy..(Min(oy + slabY, ny) - 1)) \X (0..(slabZ - 1))

\* C11: a writeLayer that succeeds delivers to each sink exactly one slab per
\* tile origin (ox a multiple of slabX below nx, oy a multiple of slabY below
\* ny), each with the oz the layer was written at; the tiles
\* [ox, min(ox+slabX, nx)) x [oy, min(oy+slabY, ny)) x [0, slabZ) are the voxels
\* the slabs are filled from, and every voxel of the layer is in exactly one.
C11_OneSlabPerTile ==
    \A k \in 1..Len(flushes) : \A n \in 1..Len(Sinks) :
        (flushes[k].ok /\ ~dryrun) =>
            LET D == Delivered(k, Sinks[n])
            IN  /\ \A o \in Origins(layer.nx, layer.ny) :
                       Cardinality({i \in D : <<slabs[i].ox, slabs[i].oy>> = o}) = 1
                /\ \A i \in D :
                       /\ <<slabs[i].ox, slabs[i].oy>> \in Origins(layer.nx, layer.ny)
                       /\ slabs[i].oz = flushes[k].oz
                       /\ TileCells(layer, slabs[i].ox, slabs[i].oy) =
                              { v[3] * layer.nxy + v[2] * layer.nx + v[1] :
                                  v \in Box(slabs[i].ox, slabs[i].oy, layer.nx, layer.ny) }
                /\ \A v \in (0..(layer.nx - 1)) \X (0..(layer.ny - 1)) \X (0..(slabZ - 1)) :
                       Cardinality({i \in D :
                           v \in Box(slabs[i].ox, slabs[i].oy, layer.nx, layer.ny)}) = 1

\* a layer 3 voxels wide cut into slabs 2 wide and 1 high, delivered to both
\* sinks, after a layer before it
C11_Witness ==
    /\ Len(flushes) = 2
    /\ flushes[2].ok
    /\ ~dryrun
    /\ Len(Sinks) = 2
    /\ layer.nx = 3
    /\ slabX = 2
    /\ slabY = 1
    /\ Cardinality(Delivered(2, "file")) = 4

\* the width and the height of the tile writeLayer is run on
TileW == Min(call.ox + slabX, call.layer.nx) - call.ox
TileH == Min(call.oy + slabY, call.layer.ny) - call.oy

\* the tile is cut by the edge of the layer
Clipped == TileW < slabX \/ TileH < slabY

\* the value of the 8 bytes that follow the first i of b, the least
\* significant first
RECURSIVE ReadLE(_, _, _)

ReadLE(b, i, k) == IF k = 8 THEN 0 ELSE b[i + k + 1] + 256 * ReadLE(b, i, k + 1)

\* unit u of a buffer
Unit(b, u) == ReadLE(b, 8 * u, 0)

\* C12, as the code has it: the slab of a tile cut by the edge of the layer
\* is as large as every other, 8 * slabX * slabY * slabZ bytes; the 8-byte
\* units outside the w x h columns of the tile are zero.
C12_ClippedSlabIsFullSize ==
    (call.done /\ Clipped) =>
        /\ Len(call.slabBuf) = 8 * slabX * slabY * slabZ
        /\ \A u \in 0..(slabX * slabY * slabZ - 1) :
               (u % slabX >= TileW \/ (u \div slabX) % slabY >= TileH) =>
                   Unit(call.slabBuf, u) = 0

\* C12, as the claim has it: the slab of a tile cut by the edge holds
\* exactly 8 * w * h * slabZ bytes.
C12_ClippedSlabIsSmaller ==
    (call.done /\ Clipped) => Len(call.slabBuf) = 8 * TileW * TileH * slabZ

\* the last column of a layer 3 wide in slabs 2 wide, two slices deep
C12_Witness ==
    /\ call.done
    /\ call.layer.nx = 3
    /\ slabX = 2
    /\ call.ox = 2
    /\ slabZ = 2
    /\ Len(call.slabBuf) = 8 * 2 * slabY * 2

\* the inverse of compress: the bytes a compressed slab was made of
Decompress(out) == out.data

\* the body id of voxel <<x, y, z>> of the layer writeLayer is run on
Voxel(x, y, z) == call.layer.buf[z * call.layer.nxy + y * call.layer.nx + x + 1]

\* C13, as the code has it: with each of the three compressions, the bytes
\* read back from the compressed slab, taken as little-endian 8-byte units,
\* hold the body ids of the tile with the strides of a full slab: unit
\* (z * slabY + y) * slabX + x is layer[z][oy + y][ox + x].
C13_RoundTripFullStrides ==
    (call.done /\ compression \in {"none", "lz4", "gzip"}) =>
        /\ call.err = ""
        /\ call.out.codec = compression
        /\ \A x \in 0..(TileW - 1), y \in 0..(TileH - 1), z \in 0..(slabZ - 1) :
               Unit(Decompress(call.out), (z * slabY + y) * slabX + x) =
                   Voxel(call.ox + x, call.oy + y, z)

\* C13, as the claim has it: unit (z * h + y) * w + x of the bytes read back
\* is layer[z][oy + y][ox + x], for a tile of w x h voxels, whole or cut.
C13_RoundTripTileStrides ==
    (call.done /\ compression \in {"none", "lz4", "gzip"}) =>
        \A x \in 0..(TileW - 1), y \in 0..(TileH - 1), z \in 0..(slabZ - 1) :
            Unit(Decompress(call.out), (z * TileH + y) * TileW + x) =
                Voxel(call.ox + x, call.oy + y, z)

\* a tile cut in both directions, two slices deep, of three-byte body ids,
\* compressed by gzip
C13_Witness ==
    /\ call.done
    /\ compression = "gzip"
    /\ call.out.codec = "gzip"
    /\ Clipped
    /\ TileW = 1
    /\ TileH = 1
    /\ slabX = 2
    /\ slabY = 2
    /\ slabZ = 2
    /\ Unit(call.slabBuf, 4) = Voxel(call.ox, call.oy, 1)
    /\ Voxel(call.ox, call.oy, 1) > 65535

----------------------------------------------------------------------------
(* The POSTs of writeDVID. *)

\* the request writeDVID makes: its address and its body
Request ==
    [url |-> [base |-> url, path |-> "raw/0_1_2", size |-> <<slabX, slabY, slabZ>>,
              offset |-> <<call.ox, call.oy, call.oz>>, throttle |-> "on",
              compression |-> IF compression = "none" THEN "" ELSE compression],
     body |-> [codec |-> compression, data |-> call.slabBuf]]

\* C14: in the loop of writeDVID a 503 never returns: writeDVID has slept
\* between 30 and 59 seconds and is about to post again, however many POSTs
\* it has made; every POST has the same address and the same body; writeDVID
\* returns only on a response that is not a 503, with nil on a 200, which is
\* then the only 200 it got.
C14_RetryOn503 ==
    [][ (call.at = "loop" /\ call' # call) =>
            /\ call'.reqs = {Request}
            /\ (call'.status = 503 =>
                    /\ call'.at = "loop"
                    /\ call'.ret = ""
                    /\ call'.slept \in 30..59
                    /\ call'.accepted = 0)
            /\ (call'.at = "ret" => call'.status # 503)
            /\ (call'.status = 200 =>
                    /\ call'.at = "ret"
                    /\ call'.ret = "nil"
                    /\ call.accepted = 0
                    /\ call'.accepted = 1) ]_vars

\* a 200 after more 503s than are counted, the last slept for 59 seconds
C14_Witness ==
    /\ call.fn = "writeDVID"
    /\ call.at = "ret"
    /\ call.ret = "nil"
    /\ call.posts = MaxPosts
    /\ call.slept = 59
    /\ call.accepted = 1
    /\ compression = "lz4"

----------------------------------------------------------------------------
(* Failures of the delivery, and the dry run. *)

\* call i of the log is a POST that got a transport error or a status that
\* is neither 200 nor 503
PostFailed(i) == slabs[i].io \in {"bad status", "transport error"}

\* C15: a POST that ends with a transport error or with a status that is
\* neither 200 nor 503 is made once, writeDVID and writeLayer return its
\* error and the run ends with it: the failed POST is the last call of
\* writeDVID or writeFile the run makes, the image that was being visited is
\* not stored, and the run takes no further step.
C15_FatalPostAborts ==
    \A i \in 1..Len(slabs) :
        PostFailed(i) =>
            /\ i = Len(slabs)
            /\ slabs[i].flush = Len(flushes)
            /\ ~flushes[Len(flushes)].ok
            /\ pc = "error"
            /\ err = (IF slabs[i].io = "bad status" THEN "Received bad status from POST"
                      ELSE "http.Post")
            /\ \A j \in 1..(i - 1) :
                   <<slabs[j].flush, slabs[j].sink, slabs[j].ox, slabs[j].oy>> #
                       <<slabs[i].flush, "dvid", slabs[i].ox, slabs[i].oy>>
            /\ (inBuf = <<>> \/ inBuf[Len(inBuf)] # walkI \/ walkI >= Len(dir))
            /\ ~ENABLED Next

\* the POST of the second slab of a layer meets a bad status with both sinks
\* set, while an image waits to be stored and another to be visited
C15_Witness ==
    /\ Len(slabs) = 3
    /\ slabs[3].io = "bad status"
    /\ slabs[2].sink = "file"
    /\ slabs[2].io = "ok"
    /\ Len(TileOrigins(layer)) > 2
    /\ walkI < Len(dir)
    /\ pc = "error"

\* the calls of writeDVID and writeFile made for flush k
CallsOf(k) == {i \in 1..Len(slabs) : slabs[i].flush = k}

\* C16: in a dry run no call of writeDVID posts and no call of writeFile
\* creates a file, whichever sinks are set; with a compression that compress
\* knows, every writeLayer of the run succeeds and calls each sink once for
\* every tile origin with the oz of the layer, as a run whose deliveries all
\* succeed does, and the run ends without an error of the delivery.
C16_DryRun ==
    dryrun =>
        /\ \A i \in 1..Len(slabs) : slabs[i].io = "none"
        /\ compression \in {"none", "lz4", "gzip"} =>
               /\ err \notin {"unknown compression type", "Received bad status from POST",
                              "http.Post", "os"}
               /\ \A k \in 1..Len(flushes) :
                      /\ flushes[k].ok
                      /\ Cardinality(CallsOf(k)) =
                             Len(Sinks) * Cardinality(Origins(layer.nx, layer.ny))
                      /\ \A n \in 1..Len(Sinks), o \in Origins(layer.nx, layer.ny) :
                             \E i \in CallsOf(k) :
                                 /\ slabs[i].sink = Sinks[n]
                                 /\ <<slabs[i].ox, slabs[i].oy>> = o
                                 /\ slabs[i].oz = flushes[k].oz

\* a dry run with both sinks and gzip has ended after two layers of 3 x 2
\* voxels in slabs of 2 x 2
C16_Witness ==
    /\ dryrun
    /\ pc = "done"
    /\ err = ""
    /\ compression = "gzip"
    /\ Len(Sinks) = 2
    /\ Len(flushes) = 2
    /\ Len(slabs) = 8
    /\ slabX = 2
    /\ slabY = 2

----------------------------------------------------------------------------
(* Labels without a body, and the loading of the superpixel->body map. *)

\* the body the table gives for <<z, label>> when every key it lacks is
\* taken to be in it with the body 0
LookupOrZero(z, label) ==
    IF <<z, label>> \in DOMAIN sp2body THEN sp2body[<<z, label>>] ELSE 0

\* C17: when the image just stored has a pixel whose non-zero label is not
\* in the superpixel->body map, no error was raised for it; the pixel holds
\* what a lookup that returned 0 gives, the body 0 with the body offset added
\* as to every body, and every other pixel of the image that has a non-zero
\* label holds its own body.
C17_MissingLabelIsBodyZero ==
    Stored =>
        LET img == Cur.img
            z == ZOf(Cur)
            P == {p \in (0..(img.w - 1)) \X (0..(img.h - 1)) :
                    Included(p[1], p[2], z) /\ LabelAt(img, p[1], p[2]) # 0}
        IN  (\E p \in P : <<z, LabelAt(img, p[1], p[2])>> \notin DOMAIN sp2body) =>
                /\ \A p \in P :
                       CellOf(layer.buf, img, p[1], p[2], z) =
                           LookupOrZero(z, LabelAt(img, p[1], p[2])) + bodyoffset
                /\ (pc = "error" => ~flushes[Len(flushes)].ok)

\* slice 1 holds the label 9, which no record names, beside labels that
\* have a body; the image is stored with the offset 1000 and the run ends
C17_Witness ==
    /\ Stored
    /\ pc = "done"
    /\ bodyoffset = 1000
    /\ ZOf(Cur) = 1
    /\ Cur.img.w = 2
    /\ LabelAt(Cur.img, 0, 1) = 9
    /\ <<1, 9>> \notin DOMAIN sp2body
    /\ <<1, 5>> \in DOMAIN sp2body
    /\ CellOf(layer.buf, Cur.img, 0, 1, 1) = 1000
    /\ CellOf(layer.buf, Cur.img, 1, 0, 1) = 1200

\* the errors the loading of the superpixel->segment source ends with
SpErrors ==
    {"Error loading superpixel->segment map", "superpixel id exceeds 24-bit value!",
     "Segment not found"}

\* lineI counts lines of the superpixel->segment source
InSp == pc # "loadSeg" /\ err # "Error loading segment->body map"

\* the records among the lines of the superpixel->segment source read so far
SpRead == IF InSp THEN {n \in 1..lineI : spSrc[n].kind = "rec"} ELSE {}

\* C18: whatever part of the superpixel->segment source has been read, every
\* key of the superpixel->body map has a label in 1..0xFFFFFF; a record
\* whose superpixel is 0 has raised no error, also when its segment is in no
\* record of the segment->body source; a record whose superpixel is above
\* 0xFFFFFF has ended the run with an error, no image opened and no slab
\* given to a sink.
C18_SuperpixelRange ==
    /\ \A k \in DOMAIN sp2body : k[2] \in 1..16777215
    /\ \A n \in SpRead :
           /\ spSrc[n].f[2] = 0 => ~(pc = "error" /\ err \in SpErrors /\ n = lineI)
           /\ spSrc[n].f[2] > 16777215 =>
                  /\ pc = "error"
                  /\ err = "superpixel id exceeds 24-bit value!"
                  /\ n = lineI
                  /\ opened = <<>>
                  /\ flushes = <<>>
                  /\ slabs = <<>>
                  /\ ~ENABLED Next

\* a record of superpixel 2^24 ends the load after a record that was
\* stored and a record of superpixel 0 whose segment is unknown
C18_Witness ==
    /\ pc = "error"
    /\ err = "superpixel id exceeds 24-bit value!"
    /\ spSrc[lineI].f[2] = 16777216
    /\ \E n \in SpRead : spSrc[n].f[2] = 0 /\ SegLines(spSrc[n].f[3]) = {}
    /\ DOMAIN sp2body = {<<0, 5>>}

\* C19: a record of the superpixel->segment source with a superpixel in
\* 1..0xFFFFFF whose segment no loaded record of the segment->body source
\* has ends the load with an error whose message names the segment, the
\* slice and the two source files; so every key of the superpixel->body map
\* comes from a record whose segment is in the segment->body source, and
\* holds the body of the last record of that segment.  (The segment->body
\* map itself is dropped when the load is over.)
C19_UnknownSegmentNamed ==
    /\ \A n \in SpRead :
           (spSrc[n].f[2] \in 1..16777215 /\ SegLines(spSrc[n].f[3]) = {}) =>
               /\ pc = "error"
               /\ n = lineI
               /\ err = "Segment not found"
               /\ { <<"segment", spSrc[n].f[3]>>, <<"slice", spSrc[n].f[1]>>,
                     <<"file", "sp_to_seg">>, <<"file", "seg_to_body">> } \subseteq errArgs
    /\ \A k \in DOMAIN sp2body :
           \E n \in SpRead :
               /\ <<spSrc[n].f[1], spSrc[n].f[2]>> = k
               /\ SegLines(spSrc[n].f[3]) # {}
               /\ sp2body[k] = segSrc[MaxOf(SegLines(spSrc[n].f[3]))].f[2]

\* C20: in both sources a line that is blank and a line that starts with a
\* space or a '#' are skipped: the load does not end with an error at such a
\* line, the line adds no entry, and the records after it are loaded (the
\* segment->body map is whole while the second source is read).
C20_BlankAndCommentSkipped ==
    /\ (pc = "error" /\ err = "Error loading segment->body map") =>
           segSrc[lineI].kind \notin {"blank", "comment"}
    /\ (pc = "error" /\ err = "Error loading superpixel->segment map") =>
           spSrc[lineI].kind \notin {"blank", "comment"}
    /\ pc = "loadSp" =>
           /\ \A n \in 1..Len(segSrc) :
                  (segSrc[n].kind = "rec" /\ segSrc[n].nl) => segSrc[n].f[1] \in DOMAIN seg2body
           /\ Cardinality(DOMAIN seg2body) =
                  Cardinality({segSrc[n].f[1] : n \in {j \in 1..Len(segSrc) :
                                          segSrc[j].kind = "rec" /\ segSrc[j].nl}})

----------------------------------------------------------------------------
\* the errors that the walk callback returns, its own and those of a failed
\* writeLayer call
ImageErrors ==
    {"error parsing Z slice in filename", "error parsing Z in filename",
     "Unable to open superpixel image", "superpixel image was not PNG formatted",
     "Unable to decode superpixel image of type", "superpixel image changes sizes",
     "expected 32-bit RGBA superpixels, got", "unknown superpixel format"}
DeliveryErrors ==
    {"unknown compression type", "Received bad status from POST", "http.Post", "os"}

\* C21: once the walk has returned an error, raised by the callback or by a
\* writeLayer call that failed, the run is over: no step is left, hence no
\* further image is handled and no slab delivered; the slices accumulated in
\* the layer are in no writeLayer call that succeeded (there was no final
\* flush); every writeLayer call before the failing one succeeded and its
\* slabs are all in the log, delivered.
C21_FatalImageErrorEndsRun ==
    (pc = "error" /\ err \in ImageErrors \cup DeliveryErrors) =>
        /\ ~ENABLED Next
        /\ \A k \in 1..Len(flushes) :
               /\ k < Len(flushes) => flushes[k].ok
               /\ flushes[k].ok => Range(flushes[k].imgs) \cap Range(inBuf) = {}
               /\ flushes[k].ok =>
                      \A j \in 1..Len(slabs) :
                          slabs[j].flush = k => slabs[j].io \in {"ok", "none"}
        /\ err \in ImageErrors => \A k \in 1..Len(flushes) : flushes[k].ok
        /\ \A j \in 1..Len(slabs) : slabs[j].flush <= Len(flushes)
        /\ Len(inBuf) = zInBuf

\* an image of another size ends a run that had delivered one window and had
\* accumulated slices of the next
C21_Witness ==
    /\ pc = "error"
    /\ err = "superpixel image changes sizes"
    /\ zInBuf # 0
    /\ Len(flushes) >= 1
    /\ \E j \in 1..Len(slabs) : slabs[j].io = "ok"


----------------------------------------------------------------------------
\* the pixel (x, y) of cell c of a buffer of slices of width w and nxy cells
CellX(c, w, nxy) == ((c - 1) % nxy) % w
CellY(c, w, nxy) == ((c - 1) % nxy) \div w
CellSlot(c, nxy) == (c - 1) \div nxy

\* the positions, in the images of a writeLayer call, of those of slice z
\* that decode pixel (x, y)
Writers(fl, x, y, z) ==
    {n \in 1..Len(fl.imgs) : ZOf(dir[fl.imgs[n]]) = z /\ Included(x, y, z)}

\* what the decoding of pixel (x, y) of an image of slice z writes
Written(img, x, y, z) ==
    LET label == LabelAt(img, x, y)
    IN  (IF label = 0 THEN 0 ELSE LookupOrZero(z, label)) + bodyoffset

\* C22: in the layer handed to every writeLayer call, of window start W, a
\* cell of depth slot k holds what the last image of slice W + k accumulated
\* since the previous call wrote for its pixel, and 0 when no image of that
\* slice is among them or the pixel is outside the ROI: nothing written for an
\* earlier window is left in the layer.
C22_OnlyOwnWindowValues ==
    \A f \in 1..Len(flushes) :
        LET fl == flushes[f]
            img1 == dir[fl.imgs[1]].img
            nxy == img1.w * img1.h
        IN  /\ Len(fl.buf) = slabZ * nxy
            /\ \A c \in 1..Len(fl.buf) :
                   LET x == CellX(c, img1.w, nxy)
                       y == CellY(c, img1.w, nxy)
                       z == fl.oz + CellSlot(c, nxy)
                       ws == Writers(fl, x, y, z)
                   IN  fl.buf[c] = IF ws = {} THEN 0
                                   ELSE Written(dir[fl.imgs[MaxOf(ws)]].img, x, y, z)

\* the second writeLayer call of a run gets a layer with an empty depth slot
\* that held a value in the first call
C22_Witness ==
    /\ Len(flushes) >= 2
    /\ flushes[2].ok
    /\ \E c \in 1..Len(flushes[2].buf) :
           /\ flushes[1].buf[c] # 0
           /\ flushes[2].buf[c] = 0
    /\ \E c \in 1..Len(flushes[2].buf) : flushes[2].buf[c] # 0


----------------------------------------------------------------------------
\* C23: for every writeLayer(layer, oz) call of a run, every image accumulated
\* since the previous call lies in the window that starts at oz, a multiple of
\* the slab depth: Z - Z mod depth = oz; and oz is the Z of the address of
\* every slab the call delivers.  This holds also when the first accepted
\* image is not in window 0.
C23_WindowStartIsTrue ==
    /\ \A f \in 1..Len(flushes) :
           /\ flushes[f].imgs # <<>>
           /\ flushes[f].oz % slabZ = 0
           /\ \A n \in 1..Len(flushes[f].imgs) :
                  LET z == ZOf(dir[flushes[f].imgs[n]])
                  IN  z - (z % slabZ) = flushes[f].oz
    /\ \A j \in 1..Len(slabs) : slabs[j].oz = flushes[slabs[j].flush].oz

\* with minZ = 2, the first writeLayer call of a run delivers two slices of a
\* window that starts above 0
C23_Witness ==
    /\ minz > 0
    /\ Len(flushes) >= 1
    /\ flushes[1].ok
    /\ flushes[1].oz > 0
    /\ Len(flushes[1].imgs) >= 2
    /\ \E j \in 1..Len(slabs) :
           slabs[j].flush = 1 /\ slabs[j].io = "ok" /\ slabs[j].oz = flushes[1].oz


----------------------------------------------------------------------------
\* the window of an image file that a run stored
WindowOf(i) == ZOf(dir[i]) - (ZOf(dir[i]) % slabZ)

\* C24: within a run no two writeLayer calls have the same window start, no
\* slab address is delivered to a sink by two calls, and at the end of a run
\* without an error every stored image is among the images of the one call of
\* its window.
C24_OneFlushPerWindow ==
    /\ \A f, g \in 1..Len(flushes) : f < g => flushes[f].oz # flushes[g].oz
    /\ \A j, k \in 1..Len(slabs) :
           ( /\ slabs[j].sink = slabs[k].sink
             /\ slabs[j].ox = slabs[k].ox
             /\ slabs[j].oy = slabs[k].oy
             /\ slabs[j].oz = slabs[k].oz ) => slabs[j].flush = slabs[k].flush
    /\ pc = "done" =>
           \A f \in 1..Len(flushes), n \in 1..Len(opened) :
               WindowOf(opened[n]) = flushes[f].oz => opened[n] \in Range(flushes[f].imgs)


----------------------------------------------------------------------------
\* the record lines of a source, the last line counted also without a newline
Records(src) == {n \in 1..Len(src) : src[n].kind = "rec"}

\* the table a segment->body source gives when every record line counts
SegTable(seg) ==
    LET last == MaxOf({n \in Records(segSrc) : segSrc[n].f[1] = seg})
    IN  segSrc[last].f[2]

\* C25: every record line of a source is in the loaded table, the last line
\* also when no newline ends it: when the segment->body source is loaded,
\* every record of it has its segment in the table, with the body of the
\* last record of that segment; when the superpixel->segment source is
\* loaded, every record of it with a label in 1..0xFFFFFF has its superpixel
\* in the table; a load does not end with "Segment not found" for a segment
\* that a record line of the segment->body source names.
C25_LastLineWithoutNewlineLoaded ==
    /\ pc = "loadSp" =>
           \A n \in Records(segSrc) :
               /\ segSrc[n].f[1] \in DOMAIN seg2body
               /\ seg2body[segSrc[n].f[1]] = SegTable(segSrc[n].f[1])
    /\ pc \in {"transform", "walk", "done"} =>
           \A n \in Records(spSrc) :
               spSrc[n].f[2] \in 1..16777215 =>
                   <<spSrc[n].f[1], spSrc[n].f[2]>> \in DOMAIN sp2body
    /\ (pc = "error" /\ err = "Segment not found") =>
           \A n \in Records(segSrc) : segSrc[n].f[1] # spSrc[lineI].f[3]


----------------------------------------------------------------------------
\* ceil(a / b) for b >= 1
Ceil(a, b) == (a + b - 1) \div b

\* C26: for every slab width and height that main lets through, writeLayer
\* makes no more slabs than ceil(nx/slabX) * ceil(ny/slabY), which is at most
\* nx * ny, and when it has returned it has returned nil after exactly that
\* number of slabs, each given once to every configured sink.
C26_WriteLayerTerminates ==
    call.fn = "writeLayerLoop" =>
        /\ call.n <= call.nx * call.ny
        /\ call.at = "ret" =>
               /\ call.ret = "nil"
               /\ slabX >= 1
               /\ slabY >= 1
               /\ call.n = Ceil(call.nx, slabX) * Ceil(call.ny, slabY)
               /\ call.posts = IF url # "" THEN call.n ELSE 0
               /\ call.files = IF outdir # "" THEN call.n ELSE 0

====
